---- MODULE Spec2Model ----
(***************************************************************************)
(* The streaming response engine of the chat client (src/src/main.js):     *)
(* handleSendMessage, getAIResponse (Tauri event path), getAIResponseFetch *)
(* (fetch read loop), stopGeneration, the frame decoder and dialect parser *)
(* inside the chunk handlers, and parseThinkContent.                       *)
(*                                                                         *)
(* Text is a sequence of one-character strings, so that indexOf, slice,    *)
(* split, trim and JSON.parse are computed character by character.         *)
(***************************************************************************)
EXTENDS Integers, Sequences, FiniteSets, TLC

\* ------------------------------------------------------------------ text

Min(S) == CHOOSE x \in S : \A y \in S : x <= y

\* JavaScript's white space, restricted to the characters of the model.
WhiteSpace == {" ", "\t", "\n", "\r"}

T_NL == <<"\n">>
T_NLNL == <<"\n", "\n">>
T_DataSp == <<"d", "a", "t", "a", ":", " ">>
T_Data == <<"d", "a", "t", "a", ":">>
T_Done == <<"[", "D", "O", "N", "E", "]">>
T_null == <<"n", "u", "l", "l">>
T_true == <<"t", "r", "u", "e">>
T_false == <<"f", "a", "l", "s", "e">>
T_choices == <<"c", "h", "o", "i", "c", "e", "s">>
T_delta == <<"d", "e", "l", "t", "a">>
T_content == <<"c", "o", "n", "t", "e", "n", "t">>
T_message == <<"m", "e", "s", "s", "a", "g", "e">>
T_done == <<"d", "o", "n", "e">>
T_finish_reason ==
    <<"f", "i", "n", "i", "s", "h", "_", "r", "e", "a", "s", "o", "n">>
T_ThinkOpen == <<"<", "t", "h", "i", "n", "k", ">">>
T_ThinkClose == <<"<", "/", "t", "h", "i", "n", "k", ">">>
T_ObjectObject ==
    <<"[", "o", "b", "j", "e", "c", "t", " ", "O", "b", "j", "e", "c", "t", "]">>

\* s.startsWith(pat) at position i (1-based).
MatchAt(s, pat, i) ==
    /\ i >= 1
    /\ i + Len(pat) - 1 <= Len(s)
    /\ SubSeq(s, i, i + Len(pat) - 1) = pat

startsWith(s, pat) == MatchAt(s, pat, 1)

\* s.indexOf(pat, from), 1-based; 0 stands for JavaScript's -1.
indexOf(s, pat, from) ==
    LET hits == {i \in from..(Len(s) - Len(pat) + 1) : MatchAt(s, pat, i)}
    IN  IF hits = {} THEN 0 ELSE Min(hits)

\* s.slice(i - 1) for a 1-based i.
sliceFrom(s, i) == SubSeq(s, i, Len(s))

\* s.trim()
trim(s) ==
    LET keep == {i \in 1..Len(s) : s[i] \notin WhiteSpace}
    IN  IF keep = {} THEN <<>>
        ELSE SubSeq(s, Min(keep), CHOOSE x \in keep : \A y \in keep : y <= x)

\* s.split("\n")
RECURSIVE split(_)
split(s) ==
    LET b == indexOf(s, T_NL, 1)
    IN  IF b = 0 THEN <<s>>
        ELSE <<SubSeq(s, 1, b - 1)>> \o split(sliceFrom(s, b + 1))

\* ------------------------------------------------------------ JSON.parse
\* A decoded value: null, a boolean, a string, an array or an object (a
\* sequence of key/value pairs in document order).  Numbers, escapes and
\* control characters are outside the model's alphabet: a payload holding a
\* digit or a backslash does not decode here, and no chunk of the model
\* holds one.

Undefined == [t |-> "undef"]
JNull == [t |-> "null"]
JBool(b) == [t |-> "bool", b |-> b]
JStr(s) == [t |-> "str", s |-> s]
JArr(a) == [t |-> "arr", a |-> a]
JObj(o) == [t |-> "obj", o |-> o]

ParseFail == [ok |-> FALSE, v |-> Undefined, i |-> 0]
ParseOk(v, i) == [ok |-> TRUE, v |-> v, i |-> i]

RECURSIVE SkipWs(_, _)
SkipWs(s, i) ==
    IF i <= Len(s) /\ s[i] \in WhiteSpace THEN SkipWs(s, i + 1) ELSE i

\* s[i] is the opening quote.
ParseString(s, i) ==
    LET j == indexOf(s, <<"\"">>, i + 1)
    IN  IF j = 0 THEN ParseFail
        ELSE IF \E k \in (i + 1)..(j - 1) : s[k] \in {"\\", "\t", "\n", "\r"}
             THEN ParseFail
             ELSE ParseOk(JStr(SubSeq(s, i + 1, j - 1)), j + 1)

RECURSIVE ParseValue(_, _)
RECURSIVE ParseElements(_, _, _)
RECURSIVE ParseMembers(_, _, _)

\* After an element: "," continues the array, "]" ends it.
ParseElements(s, i, acc) ==
    LET r == ParseValue(s, i)
        k == SkipWs(s, r.i)
    IN  IF ~r.ok \/ k > Len(s) THEN ParseFail
        ELSE IF s[k] = "]" THEN ParseOk(JArr(Append(acc, r.v)), k + 1)
        ELSE IF s[k] = "," THEN ParseElements(s, k + 1, Append(acc, r.v))
        ELSE ParseFail

\* A member is "key" : value; "," continues the object, "}" ends it.
ParseMembers(s, i, acc) ==
    LET k0 == SkipWs(s, i)
    IN  IF k0 > Len(s) \/ s[k0] # "\"" THEN ParseFail
        ELSE
          LET key == ParseString(s, k0)
              c == SkipWs(s, key.i)
          IN  IF ~key.ok \/ c > Len(s) \/ s[c] # ":" THEN ParseFail
              ELSE
                LET r == ParseValue(s, c + 1)
                    k == SkipWs(s, r.i)
                    more == Append(acc, [k |-> key.v.s, v |-> r.v])
                IN  IF ~r.ok \/ k > Len(s) THEN ParseFail
                    ELSE IF s[k] = "}" THEN ParseOk(JObj(more), k + 1)
                    ELSE IF s[k] = "," THEN ParseMembers(s, k + 1, more)
                    ELSE ParseFail

ParseValue(s, i0) ==
    LET i == SkipWs(s, i0)
    IN  IF i > Len(s) THEN ParseFail
        ELSE IF s[i] = "\"" THEN ParseString(s, i)
        ELSE IF MatchAt(s, T_null, i) THEN ParseOk(JNull, i + 4)
        ELSE IF MatchAt(s, T_true, i) THEN ParseOk(JBool(TRUE), i + 4)
        ELSE IF MatchAt(s, T_false, i) THEN ParseOk(JBool(FALSE), i + 5)
        ELSE IF s[i] = "["
             THEN LET k == SkipWs(s, i + 1)
                  IN  IF k <= Len(s) /\ s[k] = "]" THEN ParseOk(JArr(<<>>), k + 1)
                      ELSE ParseElements(s, i + 1, <<>>)
        ELSE IF s[i] = "{"
             THEN LET k == SkipWs(s, i + 1)
                  IN  IF k <= Len(s) /\ s[k] = "}" THEN ParseOk(JObj(<<>>), k + 1)
                      ELSE ParseMembers(s, i + 1, <<>>)
        ELSE ParseFail

\* JSON.parse(s): ok is FALSE where JSON.parse throws.
JSONParse(s) ==
    LET r == ParseValue(s, 1)
    IN  IF r.ok /\ SkipWs(s, r.i) = Len(s) + 1
        THEN [ok |-> TRUE, v |-> r.v]
        ELSE [ok |-> FALSE, v |-> Undefined]

\* v?.key : undefined on anything that is not an object holding the key;
\* JSON.parse keeps the last of duplicate keys.
Get(v, key) ==
    IF v.t # "obj" THEN Undefined
    ELSE LET at == {n \in 1..Len(v.o) : v.o[n].k = key}
         IN  IF at = {} THEN Undefined
             ELSE v.o[CHOOSE n \in at : \A m \in at : m <= n].v

\* v?.[0]
At0(v) ==
    IF v.t = "arr" /\ Len(v.a) > 0 THEN v.a[1]
    ELSE IF v.t = "str" /\ Len(v.s) > 0 THEN JStr(<<v.s[1]>>)
    ELSE Undefined

\* JavaScript truthiness.
Truthy(v) ==
    CASE v.t = "undef" -> FALSE
      [] v.t = "null" -> FALSE
      [] v.t = "bool" -> v.b
      [] v.t = "str" -> v.s # <<>>
      [] OTHER -> TRUE

\* a || b
OrElse(a, b) == IF Truthy(a) THEN a ELSE b

\* The text that  fullResponse += v  appends for a truthy v.
RECURSIVE ToText(_)
RECURSIVE JoinText(_)
JoinText(a) ==
    IF a = <<>> THEN <<>>
    ELSE LET h == IF a[1].t \in {"null", "undef"} THEN <<>> ELSE ToText(a[1])
         IN  IF Len(a) = 1 THEN h ELSE h \o <<",">> \o JoinText(Tail(a))
ToText(v) ==
    CASE v.t = "str" -> v.s
      [] v.t = "bool" -> IF v.b THEN T_true ELSE T_false
      [] v.t = "null" -> T_null
      [] v.t = "arr" -> JoinText(v.a)
      [] v.t = "obj" -> T_ObjectObject
      [] OTHER -> <<>>

\* ------------------------------------------------------- dialect parser

\* isStreamFinished without the comparisons with the text 'null'.
isStreamFinishedAnyReason(data, dataPayload) ==
    \/ Truthy(Get(At0(Get(data, T_choices)), T_finish_reason))
    \/ Get(data, T_done) = JBool(TRUE)
    \/ Truthy(Get(data, T_finish_reason))
    \/ dataPayload = T_Done

\* isStreamFinished(data, dataPayload)
isStreamFinished(data, dataPayload) ==
    LET notNullText(v) == ~(v.t = "str" /\ v.s = T_null)
        fr0 == Get(At0(Get(data, T_choices)), T_finish_reason)
        done == Get(data, T_done)
        fr == Get(data, T_finish_reason)
    IN  \/ Truthy(fr0) /\ notNullText(fr0)
        \/ done.t = "bool" /\ done.b
        \/ Truthy(fr) /\ notNullText(fr)
        \/ dataPayload = T_Done

\* data.choices?.[0]?.delta?.content
DeltaContent(data) == Get(Get(At0(Get(data, T_choices)), T_delta), T_content)

\* data.message?.content
MessageContent(data) == Get(Get(data, T_message), T_content)

\* Event path: data.choices?.[0]?.delta?.content || data.message?.content || ""
ContentTauri(data) ==
    OrElse(OrElse(DeltaContent(data), MessageContent(data)), JStr(<<>>))

\* Fetch path: data.choices ? (data.choices[0]?.delta?.content || "")
\*                          : (data.message?.content || "")
ContentFetch(data) ==
    IF Truthy(Get(data, T_choices))
    THEN OrElse(DeltaContent(data), JStr(<<>>))
    ELSE OrElse(MessageContent(data), JStr(<<>>))

\* The accumulator a chunk handler works on: the round's fullResponse and
\* streamActuallyFinished, and whether this call appended anything.
Acc(fullResponse, finished) ==
    [fullResponse |-> fullResponse, streamActuallyFinished |-> finished,
     appended |-> FALSE]

\* The try block once JSON.parse has returned data and content is read
\* (main.js:2511-2532).
ProcessData(acc, dataPayload, data, content) ==
    LET finished == acc.streamActuallyFinished
                        \/ isStreamFinished(data, dataPayload)
    IN  IF Truthy(content)
        THEN [fullResponse |-> acc.fullResponse \o ToText(content),
              streamActuallyFinished |-> finished, appended |-> TRUE]
        ELSE [acc EXCEPT !.streamActuallyFinished = finished]

\* The catch without its test of the payload's first character.
ProcessParsedLiteralAlways(acc, dataPayload, onTauri, p) ==
    IF p.ok /\ p.v.t # "null"
    THEN ProcessData(acc, dataPayload, p.v,
                     IF onTauri THEN ContentTauri(p.v) ELSE ContentFetch(p.v))
    ELSE [fullResponse |-> acc.fullResponse \o dataPayload,
          streamActuallyFinished |-> acc.streamActuallyFinished,
          appended |-> TRUE]

\* The try and the catch for the parse result p.  JSON.parse of "null"
\* succeeds and the property access on null throws, so it takes the catch
\* like a payload that does not decode (main.js:2509-2550).
ProcessParsed(acc, dataPayload, onTauri, p) ==
    IF p.ok /\ p.v.t # "null"
    THEN ProcessData(acc, dataPayload, p.v,
                     IF onTauri THEN ContentTauri(p.v) ELSE ContentFetch(p.v))
    ELSE IF ~startsWith(dataPayload, <<"{">>)
    THEN [fullResponse |-> acc.fullResponse \o dataPayload,
          streamActuallyFinished |-> acc.streamActuallyFinished,
          appended |-> TRUE]
    ELSE acc

\* One event payload through the body of the block loop (main.js:2504-2551).
ProcessPayload(acc, dataPayload, onTauri) ==
    IF dataPayload = T_Done THEN [acc EXCEPT !.streamActuallyFinished = TRUE]
    ELSE IF dataPayload = <<>> THEN acc
    ELSE ProcessParsed(acc, dataPayload, onTauri, JSONParse(dataPayload))

RECURSIVE ProcessPayloads(_, _, _)
ProcessPayloads(acc, payloads, onTauri) ==
    IF payloads = <<>> THEN acc
    ELSE ProcessPayloads(ProcessPayload(acc, payloads[1], onTauri),
                         Tail(payloads), onTauri)

\* -------------------------------------------------------- frame decoder

\* The data payload of one line of a block.
LinePayload(line) ==
    LET trimmed == trim(line)
    IN  IF startsWith(trimmed, T_DataSp) THEN sliceFrom(trimmed, 7)
        ELSE IF trimmed # T_Data /\ trimmed # <<>> THEN trimmed
        ELSE <<>>

RECURSIVE ConcatLines(_)
ConcatLines(lines) ==
    IF lines = <<>> THEN <<>>
    ELSE LinePayload(lines[1]) \o ConcatLines(Tail(lines))

\* dataPayload of a block
BlockPayload(block) == ConcatLines(split(block))

\* The while loop over the "\n\n" boundaries of the buffer: the payloads of
\* the complete blocks, in order, and what stays in sseBuffer.
RECURSIVE DrainBlocks(_)
DrainBlocks(buffer) ==
    LET boundary == indexOf(buffer, T_NLNL, 1)
    IN  IF boundary = 0 THEN [payloads |-> <<>>, sseBuffer |-> buffer]
        ELSE LET rest == DrainBlocks(sliceFrom(buffer, boundary + 2))
             IN  [payloads |-> <<BlockPayload(SubSeq(buffer, 1, boundary - 1))>>
                                \o rest.payloads,
                  sseBuffer |-> rest.sseBuffer]

\* A decoder that starts each chunk with an empty buffer.
FeedBufferFresh(sseBuffer, chunk) == DrainBlocks(chunk)

\* sseBuffer += chunk, then the loop.
FeedBuffer(sseBuffer, chunk) == DrainBlocks(sseBuffer \o chunk)

\* The state a chunk handler leaves for the buffer and accumulator it found
\* and the blocks fed that the chunk completed.
Decoded(fullResponse, streamActuallyFinished, fed, onTauri) ==
    [sseBuffer |-> fed.sseBuffer, payloads |-> fed.payloads,
     acc |-> ProcessPayloads(Acc(fullResponse, streamActuallyFinished),
                             fed.payloads, onTauri)]

\* One call of the chunk handler on a round's sseBuffer, fullResponse and
\* streamActuallyFinished (main.js:2486-2553 and 2651-2721).
Decode(sseBuffer, fullResponse, streamActuallyFinished, chunk, onTauri) ==
    Decoded(fullResponse, streamActuallyFinished,
            FeedBuffer(sseBuffer, chunk), onTauri)

\* ---------------------------------------------------- parseThinkContent

\* parseThinkContent that leaves a complete region in the content.
parseThinkContentKeepRegion(rawContent) ==
    LET i == indexOf(rawContent, T_ThinkOpen, 1)
        j == IF i = 0 THEN 0 ELSE indexOf(rawContent, T_ThinkClose, i + 7)
    IN  IF i # 0 /\ j # 0
        THEN [thinking |-> JStr(trim(SubSeq(rawContent, i + 7, j - 1))),
              content |-> trim(rawContent)]
        ELSE IF i # 0
        THEN [thinking |-> JStr(trim(sliceFrom(rawContent, i + 7))),
              content |-> <<>>]
        ELSE [thinking |-> JNull, content |-> rawContent]

\* /<think>([\s\S]*?)<\/think>/ matches at the first "<think>" that has a
\* "</think>" after it, up to the nearest one; /<think>([\s\S]*?)$/ matches
\* from the first "<think>" to the end of the text.
parseThinkContent(rawContent) ==
    LET i == indexOf(rawContent, T_ThinkOpen, 1)
        j == IF i = 0 THEN 0 ELSE indexOf(rawContent, T_ThinkClose, i + 7)
    IN  IF i # 0 /\ j # 0
        THEN [thinking |-> JStr(trim(SubSeq(rawContent, i + 7, j - 1))),
              content |-> trim(SubSeq(rawContent, 1, i - 1)
                               \o sliceFrom(rawContent, j + 8))]
        ELSE IF i # 0
        THEN [thinking |-> JStr(trim(sliceFrom(rawContent, i + 7))),
              content |-> <<>>]
        ELSE [thinking |-> JNull, content |-> rawContent]

\* ---------------------------------------------------------------- state

SessionIds == {"s1", "s2"}

\* null, for a session id
NoSession == "none"

\* A run accepts a send while fewer than MaxSends sends have ended, and the
\* transport delivers MaxChunks chunks that a handler reads.
MaxSends == 1
MaxChunks == 2

\* continuationCount < 3
MaxContinuations == 3

\* savedSettings.maxContextLength || 20
DefaultMaxContextLength == 20

\* Fixed texts of the program, each one token that no chunk can spell.
PromptText == <<"Q">>
SystemPrompt == <<"(system prompt)">>
StoppedMarker == <<"(stopped)">>
ErrorMarker == <<"(error): ">>
InitErrorMarker == <<"(init error): ">>
RequestFailed == <<"(request failed): ">>
AbortedText == <<"Aborted">>
FetchAbortText == <<"(fetch aborted)">>
TransportErrorText == <<"(transport error)">>
InvokeErrorText == <<"(invoke error)">>
HttpErrorText == <<"(http error)">>
NetworkErrorText == <<"(network error)">>
EndpointErrorText == <<"(no endpoint)">>

\* The chunks the transport delivers to a send: a literal text event, and an
\* event whose record carries text and done.  ChunkPart is the first line of
\* an event that is not closed by a blank line.
ChunkA ==
    <<"d", "a", "t", "a", ":", " ", "A", "\n", "\n">>
ChunkB ==
    <<"d", "a", "t", "a", ":", " ", "{", "\"", "m", "e", "s", "s", "a", "g", "e", "\"", ":", "{", "\"", "c", "o", "n", "t", "e", "n", "t", "\"", ":", "\"", "B", "\"", "}", ",", "\"", "d", "o", "n", "e", "\"", ":", "t", "r", "u", "e", "}", "\n", "\n">>
ChunkPart ==
    <<"d", "a", "t", "a", ":", " ", "[", "D", "O", "N", "E", "]", "\n">>
Chunks == {ChunkA, ChunkB}

VARIABLES
    settings,               \* settings.model, .autoContinueStream, .apiEndpoint
                            \* (whether each is set) and .maxContextLength
    tauri,                  \* window.__TAURI__ is present
    sessions,               \* session id -> [history]
    currentSessionId,
    generatingSessionId,
    firstRun,               \* what a send has come to on the other path, when
                            \* the two paths are compared
    lis,                    \* the streams of the event path with their listen
                            \* promises and cleanup calls, one by one
    editingIndex,           \* the position of the message being edited in the
                            \* displayed history, from 1; 0 is null
    abortController,        \* [exists, aborted, listeners]
    streamAnimationFrameId, \* a throttled render is pending
    view,                   \* the chat view: what renderChat drew last, the
                            \* animation frame callbacks not yet run, and
                            \* whether the send in flight has requested one
    currentStreamId,        \* 0 is null
    streamChunkListener,    \* the stream whose chunk listener the global holds
    streamErrorListener,
    subscribed,             \* the event listeners registered with Tauri
    hsm,                    \* the handleSendMessage call in flight, or the last
    sendResult,             \* how the last handleSendMessage call returned
    rounds,                 \* the getAIResponse calls of the send, by round
    stop,                   \* the stopGeneration call
    net,                    \* sends accepted, requests and chunks of the send
    dec,                    \* a frame decoder fed on its own
    think,                  \* a parseThinkContent call on its own
    sm                      \* the sessions under the session management
                            \* operations: [sessions, currentSessionId,
                            \* isPrivateMode, generatingSessionId, stored,
                            \* modal, calls]

mainVars ==
    <<settings, tauri, sessions, currentSessionId, generatingSessionId,
      editingIndex, lis, firstRun, abortController, streamAnimationFrameId,
      view,
      currentStreamId,
      streamChunkListener, streamErrorListener, subscribed, hsm, sendResult,
      rounds, stop, net>>

vars == <<mainVars, dec, think, sm>>

\* ------------------------------------------------------------- messages

UserMessage(id, content) ==
    [id |-> id, role |-> "user", content |-> content, thinking |-> Undefined,
     dialogueInfo |-> Undefined, isError |-> FALSE]

Placeholder(id) ==
    [id |-> id, role |-> "assistant", content |-> <<>>, thinking |-> Undefined,
     dialogueInfo |-> Undefined, isError |-> FALSE]

\* The completed branch's metrics; the send takes time, so totalTime > 0.
MetricsInfo ==
    [t |-> "obj", tokensPerSecond |-> "number", timeToFirstToken |-> "number",
     totalTime |-> "number"]

StoppedInfo ==
    [t |-> "obj", tokensPerSecond |-> "N/A", timeToFirstToken |-> "N/A",
     totalTime |-> "Stopped"]

\* history.findIndex(m => m.id === id), 1-based; 0 stands for -1.
findIndex(history, id) ==
    LET at == {n \in 1..Len(history) : history[n].id = id}
    IN  IF at = {} THEN 0 ELSE Min(at)

AbortError(message) == [name |-> "AbortError", message |-> message]
Error(message) == [name |-> "Error", message |-> message]

NoError == [name |-> "", message |-> <<>>]

Resolved(value) == [ok |-> TRUE, value |-> value, error |-> NoError]
Rejected(error) == [ok |-> FALSE, value |-> <<>>, error |-> error]

\* ------------------------------------------------------------ rendering

frameVars == <<streamAnimationFrameId, view>>

\* renderChat(): the view shows the history of the displayed session
\* (main.js:1732-1735).
renderChat(v, ss, cur) ==
    [v EXCEPT !.sessionId = cur, !.history = ss[cur].history]

\* if (streamAnimationFrameId) cancelAnimationFrame(streamAnimationFrameId)
cancelAnimationFrame(v) ==
    [v EXCEPT !.frames = IF streamAnimationFrameId THEN @ - 1 ELSE @]

\* A render requested for every append, whatever the slot holds.
requestAnimationFrameAlways(v) == [v EXCEPT !.frames = @ + 1]

\* if (!streamAnimationFrameId) streamAnimationFrameId = requestAnimationFrame(...)
requestAnimationFrame(v) ==
    IF streamAnimationFrameId THEN v ELSE [v EXCEPT !.frames = @ + 1]

\* ----------------------------------- handleSendMessage: try, catch, finally

\* The message a completed send leaves (main.js:2224-2250).
CompletedHistory(history, id, rawResponse) ==
    LET histIndex == findIndex(history, id)
        parts == parseThinkContent(rawResponse)
    IN  IF histIndex = 0 THEN history
        ELSE [history EXCEPT ![histIndex] =
                 [@ EXCEPT !.content = parts.content,
                           !.thinking = parts.thinking,
                           !.dialogueInfo = MetricsInfo]]

\* The AbortError branch of the catch (main.js:2253-2277).
StoppedHistory(history, id) ==
    LET histIndex == findIndex(history, id)
        parts == parseThinkContent(history[histIndex].content)
    IN  IF histIndex = 0 THEN history
        ELSE [history EXCEPT ![histIndex] =
                 [@ EXCEPT !.content = IF parts.content # <<>> THEN parts.content
                                       ELSE StoppedMarker,
                           !.thinking = parts.thinking,
                           !.dialogueInfo = StoppedInfo]]

\* The other branch of the catch (main.js:2278-2302).
FailedHistory(history, id, error, newId) ==
    LET histIndex == findIndex(history, id)
    IN  IF histIndex # 0
        THEN [history EXCEPT ![histIndex] =
                 [@ EXCEPT !.content = ErrorMarker \o error.message,
                           !.isError = TRUE,
                           !.thinking = JNull,
                           !.dialogueInfo = JNull]]
        ELSE Append(history,
                    [id |-> newId, role |-> "assistant",
                     content |-> InitErrorMarker \o error.message,
                     thinking |-> Undefined, dialogueInfo |-> Undefined,
                     isError |-> TRUE])

\* error.name === 'AbortError'
IsAbortError(error) == error.name = "AbortError"

\* Which of the three ends the awaited result o leads to.
OutcomeOf(o) ==
    IF o.ok THEN "completed"
    ELSE IF IsAbortError(o.error) THEN "stopped"
    ELSE "failed"

\* handleSendMessage (the call h) from the settled  await getAIResponse(...)
\* through the finally block, on the sessions ss.
Settle(ss, o, h0) ==
    LET sid == h0.requestSessionId
        mid == h0.assistantMsgId
        h == ss[sid].history
        h2 == CASE OutcomeOf(o) = "completed" -> CompletedHistory(h, mid, o.value)
                [] OutcomeOf(o) = "stopped" -> StoppedHistory(h, mid)
                [] OTHER -> FailedHistory(h, mid, o.error, mid + 1)
        ss2 == [ss EXCEPT ![sid].history = h2]
    IN  /\ sessions' = ss2
        /\ hsm' = [h0 EXCEPT !.pc = "idle", !.outcome = OutcomeOf(o),
                             !.rawResponse = o.value]
        /\ generatingSessionId' = NoSession
        /\ streamAnimationFrameId' = FALSE
        /\ view' = [IF currentSessionId = sid
                    THEN renderChat(cancelAnimationFrame(view), ss2,
                                    currentSessionId)
                    ELSE cancelAnimationFrame(view)
                       EXCEPT !.requested = FALSE]

\* ------------------------------------------- getAIResponse: the promises

\* A round that hands on the continuation's text alone.
JoinPartsNextOnly(fullResponse, nextPart) == nextPart

\* resolve(fullResponse + nextPart)  /  return fullResponse + nextPart
JoinParts(fullResponse, nextPart) == fullResponse \o nextPart

\* The catch around the body of getAIResponse: an error that passes through
\* it loses its name.
WrapError(error) == Error(RequestFailed \o error.message)

\* Round k settles with o.  A resolved round resolves the round that awaits
\* it.  A rejected round on the fetch path rejects its caller through
\* WrapError at every getAIResponse; on the event path round 1 rejects the
\* promise handleSendMessage awaits as it is, and a later round rejects
\* inside its caller's then-callback, whose catch handler finds isFinalized
\* set and does nothing: the caller's promise stays pending.
RECURSIVE Propagate(_, _, _)
Propagate(rs, k, o) ==
    LET rs1 == [rs EXCEPT ![k].pc = IF o.ok THEN "resolved" ELSE "rejected",
                          ![k].error = o.error]
        out == IF o.ok \/ tauri THEN o ELSE Rejected(WrapError(o.error))
    IN  IF k = 1 THEN [rounds |-> rs1, done |-> TRUE, result |-> out]
        ELSE IF o.ok
        THEN Propagate(rs1, k - 1,
                       Resolved(JoinParts(rs[k - 1].fullResponse, o.value)))
        ELSE IF tauri
        THEN [rounds |-> [rs1 EXCEPT ![k - 1].pc = "orphaned"],
              done |-> FALSE, result |-> out]
        ELSE Propagate(rs1, k - 1, out)

\* Round k of rs settles with o, over the sessions ss and the render slot.
Conclude(ss, rs, k, o, frame, h0) ==
    LET p == Propagate(rs, k, o)
    IN  /\ rounds' = p.rounds
        /\ IF p.done THEN Settle(ss, p.result, h0)
           ELSE /\ sessions' = ss
                /\ streamAnimationFrameId' = frame
                /\ view' = IF frame THEN view ELSE cancelAnimationFrame(view)
                /\ hsm' = h0
                /\ UNCHANGED generatingSessionId

\* currentStreamId = Date.now().toString(): an id no other round has,
\* here the number of the round among the rounds of all sends.
StreamId(send, k) == (MaxContinuations + 1) * (send - 1) + k

\* content.replace(/<think>[\s\S]*?<\/think>/g, ''): every region from a
\* "<think>" to the nearest "</think>" after it is removed.
RECURSIVE replaceThink(_)
replaceThink(content) ==
    LET i == indexOf(content, T_ThinkOpen, 1)
        j == IF i = 0 THEN 0 ELSE indexOf(content, T_ThinkClose, i + 7)
    IN  IF i # 0 /\ j # 0
        THEN SubSeq(content, 1, i - 1) \o replaceThink(sliceFrom(content, j + 8))
        ELSE content

\* array.slice(-n): the last n elements, all of them when n is 0.
sliceLast(array, n) ==
    IF n = 0 \/ n >= Len(array) THEN array
    ELSE SubSeq(array, Len(array) - n + 1, Len(array))

\* The context that takes the oldest messages.
RequestHistoryOldest(history, continuationCount) ==
    LET sliced == IF continuationCount > 0 THEN history
                  ELSE SubSeq(history, 1, Len(history) - 1)
        kept == SelectSeq(sliced, LAMBDA msg : msg.role # "error")
    IN  SubSeq(kept, 1, Min({Len(kept), settings.maxContextLength}))

\* The const history of getAIResponse (main.js:2389-2392): the session's
\* messages, without the last one on the first request, without those of
\* role 'error', the last settings.maxContextLength of them.
RequestHistory(history, continuationCount) ==
    LET sliced == IF continuationCount > 0 THEN history
                  ELSE SubSeq(history, 1, Len(history) - 1)
        kept == SelectSeq(sliced, LAMBDA msg : msg.role # "error")
    IN  sliceLast(kept, settings.maxContextLength)

\* requestData.messages (main.js:2396-2434), of messages without images; the
\* system prompt is one token.
Messages(history) ==
    <<[role |-> "system", content |-> SystemPrompt]>>
    \o [n \in 1..Len(history) |->
           [role |-> history[n].role,
            content |-> trim(replaceThink(history[n].content))]]

\* A getAIResponse call at its first await, with the context it has taken.
NewRound(id, pc, history) ==
    [streamId |-> id, fullResponse |-> <<>>, streamActuallyFinished |-> FALSE,
     sseBuffer |-> <<>>, isFinalized |-> FALSE, pc |-> pc,
     error |-> NoError, history |-> history]

\* The continuation decision without the test of the finish flag.
ShouldContinueIgnoringFinish(r, k) ==
    /\ settings.autoContinueStream
    /\ k - 1 < MaxContinuations

\* The continuation decision of a handler that reads the text left in the
\* buffer as one more block when the stream ends.
ShouldContinueFlushing(r, k) ==
    /\ ~Decode(r.sseBuffer, r.fullResponse, r.streamActuallyFinished, T_NLNL,
               tauri).acc.streamActuallyFinished
    /\ settings.autoContinueStream
    /\ k - 1 < MaxContinuations

\* The continuation decision with  continuationCount <= 3.
ShouldContinueOffByOne(r, k) ==
    /\ ~r.streamActuallyFinished
    /\ settings.autoContinueStream
    /\ k - 1 <= MaxContinuations

\* !streamActuallyFinished && settings.autoContinueStream && continuationCount < 3
\* for round k, whose continuationCount is k - 1.
ShouldContinue(r, k) ==
    /\ ~r.streamActuallyFinished
    /\ settings.autoContinueStream
    /\ k - 1 < MaxContinuations

lsnVars == <<streamChunkListener, streamErrorListener, subscribed>>

\* What no step of a send changes.
fixed == <<settings, tauri, editingIndex, lis, firstRun, dec, think, sm>>

\* cleanup(): the listeners the globals hold are unsubscribed.
Cleanup ==
    /\ subscribed' = subscribed \ {<<streamChunkListener, "chunk">>,
                                   <<streamErrorListener, "error">>}
    /\ streamChunkListener' = 0
    /\ streamErrorListener' = 0

\* abortController.signal.removeEventListener('abort', handleAbort) of round k
Unbind(ac, k) == [ac EXCEPT !.listeners = @ \ {k}]

\* getAIResponse from its try block to its first await: the stream is
\* opened on the event path, fetch is called on the other (main.js:2446-2568,
\* 2612-2630).
OpenTransport(ss, rs, h0, v) ==
    IF tauri
    THEN LET id == StreamId(net.sends, Len(rs) + 1)
         IN  /\ rounds' = Append(rs, NewRound(id, "streaming",
                                  RequestHistory(ss[h0.requestSessionId].history,
                                                 Len(rs))))
             /\ abortController' =
                    [abortController EXCEPT !.listeners = @ \cup {Len(rs) + 1}]
             /\ currentStreamId' = id
             /\ streamChunkListener' = id
             /\ streamErrorListener' = id
             /\ subscribed' = subscribed \cup {<<id, "chunk">>, <<id, "error">>}
             /\ net' = [net EXCEPT !.requests = @ + 1]
             /\ sessions' = ss
             /\ hsm' = h0
             /\ view' = v
             /\ UNCHANGED <<generatingSessionId, streamAnimationFrameId>>
    ELSE IF abortController.aborted
    THEN /\ Conclude(ss, Append(rs, NewRound(0, "fetching",
                                  RequestHistory(ss[h0.requestSessionId].history,
                                                 Len(rs)))), Len(rs) + 1,
                     Rejected(AbortError(FetchAbortText)),
                     streamAnimationFrameId, h0)
         /\ UNCHANGED <<abortController, currentStreamId, lsnVars, net>>
    ELSE /\ rounds' = Append(rs, NewRound(0, "fetching",
                             RequestHistory(ss[h0.requestSessionId].history,
                                            Len(rs))))
         /\ net' = [net EXCEPT !.requests = @ + 1]
         /\ sessions' = ss
         /\ hsm' = h0
         /\ view' = v
         /\ UNCHANGED <<generatingSessionId, streamAnimationFrameId,
                        abortController, currentStreamId, lsnVars>>

\* getAIResponse without the test of settings.apiEndpoint.
StartRoundUnchecked(ss, rs, h0, v) == OpenTransport(ss, rs, h0, v)

\* getAIResponse(requestSessionId, messageId, onFirstChunk, k - 1) up to its
\* first await, called with the sessions ss and the earlier rounds rs from
\* the handleSendMessage call h0, with the view v the caller leaves.  The
\* throw for a missing endpoint comes before the try block and before
\* anything of the round exists, so the error reaches handleSendMessage as
\* it is; the settings do not change during a send, so it is the first call
\* that meets it.
StartRound(ss, rs, h0, v) ==
    IF ~settings.apiEndpoint
    THEN /\ rounds' = rs
         /\ Settle(ss, Rejected(Error(EndpointErrorText)), h0)
         /\ UNCHANGED <<abortController, currentStreamId, lsnVars, net>>
    ELSE OpenTransport(ss, rs, h0, v)

\* -------------------------------------------------------------- actions

\* The accepted sends that are no longer in flight.
SendsOver == net.sends - (IF hsm.pc = "idle" THEN 0 ELSE 1)

\* The guards without the test of generatingSessionId.
SendDecisionNoBusy(hasPrompt) ==
    IF ~settings.model THEN "no-model"
    ELSE IF ~hasPrompt THEN "empty"
    ELSE "accepted"

\* The guards with the test of generatingSessionId narrowed to the displayed
\* session.
SendDecisionPerSession(hasPrompt) ==
    IF ~settings.model THEN "no-model"
    ELSE IF generatingSessionId = currentSessionId THEN "busy"
    ELSE IF ~hasPrompt THEN "empty"
    ELSE "accepted"

\* The guards at the head of handleSendMessage: which way the call returns.
SendDecision(hasPrompt) ==
    IF ~settings.model THEN "no-model"
    ELSE IF generatingSessionId # NoSession THEN "busy"
    ELSE IF ~hasPrompt THEN "empty"
    ELSE "accepted"

\* handleSendMessage from the call to  await saveSessions()  (main.js:2130-2210),
\* called with the sessions ss its caller leaves, the trimmed prompt (the
\* input's text or overridePrompt) and options.isRegeneration.
handleSendMessage(ss, userPrompt, isRegeneration) ==
    LET decision == SendDecision(userPrompt # <<>>)
        userMsgId == 3 * net.sends + 1
    IN  /\ sendResult' = decision
        /\ IF decision = "accepted"
           THEN /\ SendsOver < MaxSends
                /\ generatingSessionId' = currentSessionId
                /\ abortController' =
                       [exists |-> TRUE, aborted |-> FALSE, listeners |-> {}]
                /\ sessions' =
                       IF isRegeneration THEN ss
                       ELSE [ss EXCEPT ![currentSessionId].history =
                                Append(@, UserMessage(userMsgId, userPrompt))]
                /\ hsm' = [pc |-> "saving", requestSessionId |-> currentSessionId,
                           assistantMsgId |-> userMsgId + 1, outcome |-> "none",
                           rawResponse |-> <<>>]
                /\ rounds' = <<>>
                /\ net' = [net EXCEPT !.sends = @ + 1, !.requests = 0]
           ELSE /\ sessions' = ss
                /\ UNCHANGED <<generatingSessionId, abortController, hsm,
                               rounds, net>>
        /\ UNCHANGED <<currentSessionId, frameVars, currentStreamId, lsnVars,
                       stop>>

\* The submit of the input form: the prompt is the input's text.
HandleSendMessage(hasPrompt) ==
    /\ handleSendMessage(sessions, IF hasPrompt THEN PromptText ELSE <<>>, FALSE)
    /\ UNCHANGED fixed

\* handleSendMessage after  await saveSessions() : the placeholder is pushed
\* and getAIResponse is called (main.js:2211-2222).
SendRequest ==
    /\ hsm.pc = "saving"
    /\ LET ss == [sessions EXCEPT ![hsm.requestSessionId].history =
                     Append(@, Placeholder(hsm.assistantMsgId))]
       IN  StartRound(ss, <<>>, [hsm EXCEPT !.pc = "awaiting"],
                      IF currentSessionId = hsm.requestSessionId
                      THEN renderChat(view, ss, currentSessionId)
                      ELSE view)
    /\ UNCHANGED <<fixed, currentSessionId, sendResult, stop>>

\* A chunk handler that writes the message only while its session is
\* displayed.
ApplyChunkDisplayedOnly(k, d) ==
    LET sid == hsm.requestSessionId
        histIndex == findIndex(sessions[sid].history, hsm.assistantMsgId)
        written == d.acc.appended /\ histIndex # 0 /\ currentSessionId = sid
    IN  /\ rounds' = [rounds EXCEPT
               ![k].sseBuffer = d.sseBuffer,
               ![k].fullResponse = d.acc.fullResponse,
               ![k].streamActuallyFinished = d.acc.streamActuallyFinished]
        /\ sessions' =
               IF written
               THEN [sessions EXCEPT ![sid].history[histIndex].content =
                        d.acc.fullResponse]
               ELSE sessions
        /\ streamAnimationFrameId' =
               IF written THEN TRUE ELSE streamAnimationFrameId
        /\ view' = IF written THEN requestAnimationFrame(view) ELSE view
        /\ net' = [net EXCEPT !.chunks = @ + 1]

\* What a chunk handler writes for round k when its call decoded d: the
\* round's buffer and accumulator, the owning message's content if anything
\* was appended and the message is found, and the throttled render if that
\* session is displayed (main.js:2516-2531).
ApplyChunk(k, d) ==
    LET sid == hsm.requestSessionId
        histIndex == findIndex(sessions[sid].history, hsm.assistantMsgId)
        written == d.acc.appended /\ histIndex # 0
    IN  /\ rounds' = [rounds EXCEPT
               ![k].sseBuffer = d.sseBuffer,
               ![k].fullResponse = d.acc.fullResponse,
               ![k].streamActuallyFinished = d.acc.streamActuallyFinished]
        /\ sessions' =
               IF written
               THEN [sessions EXCEPT ![sid].history[histIndex].content =
                        d.acc.fullResponse]
               ELSE sessions
        /\ streamAnimationFrameId' =
               IF written /\ currentSessionId = sid THEN TRUE
               ELSE streamAnimationFrameId
        /\ view' = IF written /\ currentSessionId = sid
                   THEN [requestAnimationFrame(view) EXCEPT !.requested = TRUE]
                   ELSE view
        /\ net' = [net EXCEPT !.chunks = @ + 1]

\* One pass of the fetch read loop for round k whose chunk decoded d:
\* if (generatingSessionId !== requestSessionId) return fullResponse;
\* at the head of the block loop (main.js:2655-2658).
ReadChunk(k, d) ==
    IF d.payloads # <<>> /\ generatingSessionId # hsm.requestSessionId
    THEN /\ Conclude(sessions, rounds, k, Resolved(rounds[k].fullResponse),
                     streamAnimationFrameId, hsm)
         /\ net' = [net EXCEPT !.chunks = @ + 1]
    ELSE /\ ApplyChunk(k, d)
         /\ UNCHANGED <<hsm, generatingSessionId>>

\* if (isFinalized || abortController.signal.aborted) return;
ChunkIgnored(r) == r.isFinalized \/ abortController.aborted

\* handleStreamChunk(event) of the latest stream, for an event that carries
\* the chunk (main.js:2480-2554).  A round that is not finalized has its
\* invoke still pending; what the transport sends to a finalized round meets
\* isFinalized in every handler and changes nothing.
HandleStreamChunk(chunk) ==
    /\ tauri
    /\ rounds # <<>>
    /\ LET k == Len(rounds)
           r == rounds[k]
       IN  /\ net.chunks < MaxChunks
           /\ IF ChunkIgnored(r)
              THEN UNCHANGED <<rounds, sessions, frameVars, net>>
              ELSE ApplyChunk(k, Decode(r.sseBuffer, r.fullResponse,
                                           r.streamActuallyFinished, chunk, TRUE))
    /\ UNCHANGED <<fixed, currentSessionId, generatingSessionId,
                   abortController, currentStreamId, lsnVars, hsm, sendResult,
                   stop>>

\* handleStreamError(event): the transport's one terminal error event
\* (main.js:2556-2559).
HandleStreamError ==
    /\ tauri
    /\ rounds # <<>>
    /\ LET k == Len(rounds)
           r == rounds[k]
           rs == [rounds EXCEPT ![k].isFinalized = TRUE]
       IN  IF r.isFinalized
           THEN UNCHANGED <<lsnVars, abortController, rounds, sessions, hsm,
                            generatingSessionId, frameVars>>
           ELSE /\ Cleanup
                /\ abortController' = Unbind(abortController, k)
                /\ Conclude(sessions, rs, k, Rejected(Error(TransportErrorText)),
                            streamAnimationFrameId, hsm)
    /\ UNCHANGED <<fixed, currentSessionId, currentStreamId,
                   sendResult, stop, net>>

\* invoke('send_chat_stream') resolves: the then-callback (main.js:2569-2586).
StreamCallResolved ==
    /\ tauri
    /\ rounds # <<>>
    /\ LET k == Len(rounds)
           r == rounds[k]
           rs == [rounds EXCEPT ![k].isFinalized = TRUE]
       IN  IF r.isFinalized
           THEN UNCHANGED <<lsnVars, abortController, rounds, sessions, hsm,
                            generatingSessionId, frameVars>>
           ELSE /\ Cleanup
                /\ abortController' = Unbind(abortController, k)
                /\ IF ShouldContinue(r, k)
                   THEN /\ rounds' = [rs EXCEPT ![k].pc = "delay"]
                        /\ UNCHANGED <<sessions, hsm, generatingSessionId,
                                       frameVars>>
                   ELSE Conclude(sessions, rs, k, Resolved(r.fullResponse),
                                 streamAnimationFrameId, hsm)
    /\ UNCHANGED <<fixed, currentSessionId, currentStreamId,
                   sendResult, stop, net>>

\* invoke('send_chat_stream') rejects: the catch handler (main.js:2587-2592).
StreamCallRejected ==
    /\ tauri
    /\ rounds # <<>>
    /\ LET k == Len(rounds)
           r == rounds[k]
           rs == [rounds EXCEPT ![k].isFinalized = TRUE]
       IN  IF r.isFinalized
           THEN UNCHANGED <<lsnVars, abortController, rounds, sessions, hsm,
                            generatingSessionId, frameVars>>
           ELSE /\ Cleanup
                /\ abortController' = Unbind(abortController, k)
                /\ Conclude(sessions, rs, k, Rejected(Error(InvokeErrorText)),
                            streamAnimationFrameId, hsm)
    /\ UNCHANGED <<fixed, currentSessionId, currentStreamId,
                   sendResult, stop, net>>

\* The 800 ms before a continuation are over: the next getAIResponse call
\* (main.js:2578-2581 and 2729-2733).
ContinueAfterDelay ==
    /\ rounds # <<>>
    /\ rounds[Len(rounds)].pc = "delay"
    /\ StartRound(sessions, [rounds EXCEPT ![Len(rounds)].pc = "awaiting"],
                  hsm, view)
    /\ UNCHANGED <<fixed, currentSessionId, sendResult, stop>>

\* await fetch(...) settles with a response (main.js:2625-2643).
FetchResponded(ok) ==
    /\ ~tauri
    /\ rounds # <<>>
    /\ LET k == Len(rounds)
       IN  /\ rounds[k].pc = "fetching"
           /\ IF ok
              THEN /\ rounds' = [rounds EXCEPT ![k].pc = "reading"]
                   /\ UNCHANGED <<sessions, hsm, generatingSessionId,
                                  frameVars>>
              ELSE Conclude(sessions, rounds, k,
                            Rejected(Error(HttpErrorText)),
                            streamAnimationFrameId, hsm)
    /\ UNCHANGED <<fixed, currentSessionId, abortController,
                   currentStreamId, lsnVars, sendResult, stop, net>>

\* fetch(...) or reader.read() rejects with a network error.
FetchFailed ==
    /\ ~tauri
    /\ rounds # <<>>
    /\ LET k == Len(rounds)
       IN  /\ rounds[k].pc \in {"fetching", "reading"}
           /\ Conclude(sessions, rounds, k, Rejected(Error(NetworkErrorText)),
                       streamAnimationFrameId, hsm)
    /\ UNCHANGED <<fixed, currentSessionId, abortController,
                   currentStreamId, lsnVars, sendResult, stop, net>>

\* reader.read() yields a chunk: one pass of the read loop (main.js:2647-2722).
FetchChunk(chunk) ==
    /\ ~tauri
    /\ rounds # <<>>
    /\ LET k == Len(rounds)
           r == rounds[k]
       IN  /\ r.pc = "reading"
           /\ net.chunks < MaxChunks
           /\ ReadChunk(k, Decode(r.sseBuffer, r.fullResponse,
                                  r.streamActuallyFinished, chunk, FALSE))
    /\ UNCHANGED <<fixed, currentSessionId, abortController,
                   currentStreamId, lsnVars, sendResult, stop>>

\* reader.read() reports done: the end of the read loop (main.js:2649, 2724-2737).
FetchDone ==
    /\ ~tauri
    /\ rounds # <<>>
    /\ LET k == Len(rounds)
           r == rounds[k]
       IN  /\ r.pc = "reading"
           /\ IF ShouldContinue(r, k)
              THEN /\ rounds' = [rounds EXCEPT ![k].pc = "delay"]
                   /\ UNCHANGED <<sessions, hsm, generatingSessionId,
                                  frameVars>>
              ELSE Conclude(sessions, rounds, k, Resolved(r.fullResponse),
                            streamAnimationFrameId, hsm)
    /\ UNCHANGED <<fixed, currentSessionId, abortController,
                   currentStreamId, lsnVars, sendResult, stop, net>>

\* abortController.abort() and the cancelAnimationFrame after it
\* (main.js:3127-3133).  On the event path the abort event runs handleAbort of
\* the round whose listener is bound; on the fetch path the pending fetch or
\* read rejects with an AbortError.
Abort ==
    /\ IF ~abortController.exists \/ abortController.aborted
       THEN /\ streamAnimationFrameId' = FALSE
            /\ view' = cancelAnimationFrame(view)
            /\ UNCHANGED <<abortController, rounds, sessions, hsm,
                           generatingSessionId, lsnVars>>
       ELSE IF tauri
       THEN IF abortController.listeners = {}
            THEN /\ abortController' = [abortController EXCEPT !.aborted = TRUE]
                 /\ streamAnimationFrameId' = FALSE
                 /\ view' = cancelAnimationFrame(view)
                 /\ UNCHANGED <<rounds, sessions, hsm, generatingSessionId,
                                lsnVars>>
            ELSE LET k == CHOOSE k \in abortController.listeners : TRUE
                 IN  /\ abortController' =
                            [Unbind(abortController, k) EXCEPT !.aborted = TRUE]
                     /\ Cleanup
                     /\ Conclude(sessions,
                                 [rounds EXCEPT ![k].isFinalized = TRUE], k,
                                 Rejected(AbortError(AbortedText)), FALSE, hsm)
       ELSE /\ abortController' = [abortController EXCEPT !.aborted = TRUE]
            /\ UNCHANGED lsnVars
            /\ IF rounds # <<>> /\ rounds[Len(rounds)].pc \in {"fetching", "reading"}
               THEN Conclude(sessions, rounds, Len(rounds),
                             Rejected(AbortError(FetchAbortText)), FALSE, hsm)
               ELSE /\ streamAnimationFrameId' = FALSE
                    /\ view' = cancelAnimationFrame(view)
                    /\ UNCHANGED <<rounds, sessions, hsm, generatingSessionId>>

\* The stop button is shown while the displayed session is generating
\* (updateInputState, main.js:3139-3149).  stopGeneration up to its first
\* await, or to its end when it awaits nothing (main.js:3117-3126).
StopGeneration ==
    /\ stop = "idle"
    /\ generatingSessionId # NoSession
    /\ generatingSessionId = currentSessionId
    /\ IF tauri /\ currentStreamId # 0
       THEN /\ stop' = "cancelling"
            /\ UNCHANGED <<abortController, rounds, sessions, hsm,
                           generatingSessionId, lsnVars, frameVars>>
       ELSE /\ stop' = "idle"
            /\ Abort
    /\ UNCHANGED <<fixed, currentSessionId, currentStreamId,
                   sendResult, net>>

\* stopGeneration after  await invoke('cancel_stream')  (main.js:3127-3133).
StopAfterCancel ==
    /\ stop = "cancelling"
    /\ stop' = "idle"
    /\ Abort
    /\ UNCHANGED <<fixed, currentSessionId, currentStreamId,
                   sendResult, net>>

\* switchSession(sessionId) (main.js:1536-1544)
SwitchSession(sessionId) ==
    /\ sessionId \in DOMAIN sessions
    /\ sessionId # currentSessionId
    /\ currentSessionId' = sessionId
    /\ view' = renderChat(view, sessions, sessionId)
    /\ UNCHANGED <<fixed, sessions, generatingSessionId,
                   abortController, streamAnimationFrameId, currentStreamId,
                   lsnVars, hsm, sendResult, rounds, stop, net>>

\* The requestAnimationFrame callback runs (main.js:2525-2528).
RenderFrame ==
    /\ streamAnimationFrameId
    /\ streamAnimationFrameId' = FALSE
    /\ view' = renderChat([view EXCEPT !.frames = @ - 1], sessions,
                          currentSessionId)
    /\ UNCHANGED <<fixed, sessions, currentSessionId,
                   generatingSessionId, abortController, currentStreamId,
                   lsnVars, hsm, sendResult, rounds, stop, net>>

\* ------------------------------------------------------ message editing
\* Positions in a history count from 1 here, from 0 in the code.

\* What the user may leave in the edit textarea, trimmed.
EditContents == {<<"E">>, <<>>}

\* history.splice(index), index counted from 0: the first index messages stay.
splice(history, index) == SubSeq(history, 1, index)

\* editMessage(index) (main.js:2806-2821), of a message the view shows.
EditMessage(index) ==
    /\ index \in DOMAIN sessions[currentSessionId].history
    /\ IF generatingSessionId # NoSession
       THEN UNCHANGED <<editingIndex, view>>
       ELSE /\ editingIndex' = index
            /\ view' = renderChat(view, sessions, currentSessionId)
    /\ UNCHANGED <<settings, tauri, lis, firstRun, dec, think, sm, sessions,
                   currentSessionId,
                   generatingSessionId, abortController, streamAnimationFrameId,
                   currentStreamId, lsnVars, hsm, sendResult, rounds, stop, net>>

\* cancelEdit() (main.js:2823-2826).
CancelEdit ==
    /\ editingIndex # 0
    /\ editingIndex' = 0
    /\ view' = renderChat(view, sessions, currentSessionId)
    /\ UNCHANGED <<settings, tauri, lis, firstRun, dec, think, sm, sessions,
                   currentSessionId,
                   generatingSessionId, abortController, streamAnimationFrameId,
                   currentStreamId, lsnVars, hsm, sendResult, rounds, stop, net>>

\* confirmEdit(index) (main.js:2828-2852), of the message whose textarea is
\* shown, holding newContent.
ConfirmEdit(newContent) ==
    /\ editingIndex \in DOMAIN sessions[currentSessionId].history
    /\ LET index == editingIndex
           originalMessage == sessions[currentSessionId].history[index]
       IN  /\ editingIndex' = 0
           /\ IF newContent # <<>> /\ newContent # originalMessage.content
              THEN IF originalMessage.role = "user"
                   THEN handleSendMessage(
                            [sessions EXCEPT ![currentSessionId].history =
                                splice(@, index - 1)],
                            newContent, FALSE)
                   ELSE /\ sessions' = [sessions EXCEPT
                               ![currentSessionId].history[index].content =
                                   newContent]
                        /\ view' = renderChat(view, sessions', currentSessionId)
                        /\ UNCHANGED <<currentSessionId, generatingSessionId,
                                       abortController, streamAnimationFrameId,
                                       currentStreamId, lsnVars, hsm, sendResult,
                                       rounds, stop, net>>
              ELSE /\ view' = renderChat(view, sessions, currentSessionId)
                   /\ UNCHANGED <<sessions, currentSessionId,
                                  generatingSessionId, abortController,
                                  streamAnimationFrameId, currentStreamId,
                                  lsnVars, hsm, sendResult, rounds, stop, net>>
    /\ UNCHANGED <<settings, tauri, lis, firstRun, dec, think, sm>>

\* regenerateResponse(messageIndex) (main.js:2793-2804), of an assistant
\* message the view shows.
RegenerateResponse(messageIndex) ==
    /\ messageIndex \in DOMAIN sessions[currentSessionId].history
    /\ sessions[currentSessionId].history[messageIndex].role = "assistant"
    /\ LET userMessageIndex == messageIndex - 1
           history == sessions[currentSessionId].history
       IN  IF userMessageIndex < 1 \/ generatingSessionId # NoSession
           THEN UNCHANGED mainVars
           ELSE /\ handleSendMessage(
                       [sessions EXCEPT ![currentSessionId].history =
                           splice(@, userMessageIndex)],
                       history[userMessageIndex].content, TRUE)
                /\ UNCHANGED <<settings, tauri, editingIndex, lis, firstRun>>
    /\ UNCHANGED <<dec, think, sm>>

\* ------------------------------------------- the listeners one by one
\* The streams of the event path with what the atomic Cleanup leaves out:
\* listen() returns a promise, the globals streamChunkListener and
\* streamErrorListener hold the promises of the stream started last, and
\* cleanup() is asynchronous.  A stream is known by its number in the order
\* of starting; 0 is null.  An await of a promise already resolved goes on
\* within the task, before any other event; an await of a pending one is
\* suspended until the promise has resolved.

\* The streams a run starts.
MaxStreams == 2

NoStreams ==
    [streams |-> <<>>, streamChunkListener |-> 0, streamErrorListener |-> 0,
     send |-> 0, aborted |-> FALSE]

\* The promise getAIResponse returns for round `round` of send `send`, as its
\* executor leaves it (main.js:2452-2562): chunk and error are the two listen
\* promises, chunkBy and errorBy the streams whose cleanup has called the
\* unlisten function of each.
NewStream(send, round) ==
    [send |-> send, round |-> round, chunk |-> "pending", error |-> "pending",
     chunkBy |-> <<>>, errorBy |-> <<>>, isFinalized |-> FALSE,
     cleanup |-> [pc |-> "none", awaits |-> 0], abortListener |-> TRUE,
     invoke |-> "pending", settled |-> "none"]

\* abortController.signal.removeEventListener('abort', handleAbort): the
\* global holds the controller of the send started last.
CleanupEnd(l, n) ==
    [l EXCEPT !.streams[n].cleanup = [pc |-> "done", awaits |-> 0],
              !.streams[n].abortListener =
                  IF l.streams[n].send = l.send THEN FALSE ELSE @]

\* const unlisten = await streamErrorListener; unlisten();
\* streamErrorListener = null;  after the await, in the cleanup of stream n.
UnlistenError(l, n, awaited) ==
    CleanupEnd([l EXCEPT !.streams[awaited].errorBy = Append(@, n),
                         !.streamErrorListener = 0], n)

\* cleanup of stream n from  if (streamErrorListener)  on.
CleanupError(l, n) ==
    LET awaited == l.streamErrorListener
    IN  IF awaited = 0 THEN CleanupEnd(l, n)
        ELSE IF l.streams[awaited].error = "resolved"
        THEN UnlistenError(l, n, awaited)
        ELSE [l EXCEPT !.streams[n].cleanup =
                           [pc |-> "awaitError", awaits |-> awaited]]

\* const unlisten = await streamChunkListener; unlisten();
\* streamChunkListener = null;  after the await, and what follows.
UnlistenChunk(l, n, awaited) ==
    CleanupError([l EXCEPT !.streams[awaited].chunkBy = Append(@, n),
                           !.streamChunkListener = 0], n)

\* cleanup() of stream n (main.js:2456-2471), up to its return or to the
\* await that suspends it.
cleanup(l, n) ==
    IF l.streams[n].isFinalized THEN l
    ELSE LET l1 == [l EXCEPT !.streams[n].isFinalized = TRUE]
             awaited == l.streamChunkListener
         IN  IF awaited = 0 THEN CleanupError(l1, n)
             ELSE IF l.streams[awaited].chunk = "resolved"
             THEN UnlistenChunk(l1, n, awaited)
             ELSE [l1 EXCEPT !.streams[n].cleanup =
                                 [pc |-> "awaitChunk", awaits |-> awaited]]

\* resolve(...) or reject(...) of the promise of stream n, or the wait for
\* the continuation: a promise settles once.
settle(l, n, how) ==
    IF l.streams[n].settled \in {"none", "continued"}
    THEN [l EXCEPT !.streams[n].settled = how]
    ELSE l

\* handleAbort of stream n (main.js:2473-2476).
handleAbort(l, n) == settle(cleanup(l, n), n, "abort")

\* abortController.abort(): the abort listeners registered run, in the order
\* of their registration, from stream n on.
RECURSIVE abort(_, _)
abort(l, n) ==
    IF n > Len(l.streams) THEN l
    ELSE abort(IF l.streams[n].send = l.send /\ l.streams[n].abortListener
               THEN handleAbort(l, n) ELSE l,
               n + 1)

lisRest == <<settings, tauri, sessions, currentSessionId, generatingSessionId,
             editingIndex, firstRun, abortController, streamAnimationFrameId, view,
             currentStreamId, streamChunkListener, streamErrorListener,
             subscribed, hsm, sendResult, rounds, stop, net, dec, think, sm>>

\* getAIResponse opens a stream (main.js:2449-2568): the first of a send,
\* once the send before has settled, or the continuation of the stream
\* before, 800 ms after that has ended unfinished.
OpenStream(newSend) ==
    LET n == Len(lis.streams)
    IN  /\ n < MaxStreams
        /\ IF n = 0 THEN newSend
           ELSE /\ lis.streams[n].isFinalized
                /\ IF newSend
                   THEN \/ lis.streams[n].settled = "resolved"
                        \/ lis.streams[n].settled = "abort"
                        \/ lis.streams[n].settled = "error"
                           /\ lis.streams[n].round = 1
                   ELSE lis.streams[n].settled = "continued"
        /\ lis' = [lis EXCEPT
               !.send = IF newSend THEN @ + 1 ELSE @,
               !.aborted = IF newSend THEN FALSE ELSE @,
               !.streamChunkListener = n + 1,
               !.streamErrorListener = n + 1,
               !.streams = Append(@,
                   IF newSend THEN NewStream(lis.send + 1, 1)
                   ELSE NewStream(lis.send, lis.streams[n].round + 1))]
        /\ UNCHANGED lisRest

\* A listen promise of stream n resolves with its unlisten function.
ListenResolved(n, isChunk) ==
    /\ n \in DOMAIN lis.streams
    /\ IF isChunk
       THEN /\ lis.streams[n].chunk = "pending"
            /\ lis' = [lis EXCEPT !.streams[n].chunk = "resolved"]
       ELSE /\ lis.streams[n].error = "pending"
            /\ lis' = [lis EXCEPT !.streams[n].error = "resolved"]
    /\ UNCHANGED lisRest

\* A cleanup suspended at an await goes on once the promise has resolved.
CleanupResumes(n) ==
    /\ n \in DOMAIN lis.streams
    /\ LET c == lis.streams[n].cleanup
       IN  \/ /\ c.pc = "awaitChunk"
              /\ lis.streams[c.awaits].chunk = "resolved"
              /\ lis' = UnlistenChunk(lis, n, c.awaits)
           \/ /\ c.pc = "awaitError"
              /\ lis.streams[c.awaits].error = "resolved"
              /\ lis' = UnlistenError(lis, n, c.awaits)
    /\ UNCHANGED lisRest

\* The invoke of send_chat_stream settles (main.js:2569-2593): resolved with
\* the stream finished or to be continued, or rejected.
InvokeSettled(n, how) ==
    /\ n \in DOMAIN lis.streams
    /\ lis.streams[n].invoke = "pending"
    /\ LET l1 == [lis EXCEPT !.streams[n].invoke = "settled"]
       IN  lis' = IF lis.streams[n].isFinalized THEN l1
                  ELSE settle(cleanup(l1, n), n, how)
    /\ UNCHANGED lisRest

\* handleStreamError (main.js:2556-2559): an error event reaches the error
\* listener of stream n, which no cleanup has unsubscribed; the transport
\* sends one per stream, before its invoke settles.
StreamErrorEvent(n) ==
    /\ n \in DOMAIN lis.streams
    /\ lis.streams[n].errorBy = <<>>
    /\ lis.streams[n].invoke = "pending"
    /\ lis.streams[n].settled # "error"
    /\ lis' = settle(cleanup(lis, n), n, "error")
    /\ UNCHANGED lisRest

\* stopGeneration reaches abortController.abort() (main.js:3127-3129) while
\* the send is in flight.
StopFires ==
    /\ lis.streams # <<>>
    /\ ~lis.aborted
    /\ \E n \in DOMAIN lis.streams :
           /\ lis.streams[n].send = lis.send
           /\ lis.streams[n].settled \in {"none", "continued"}
    /\ lis' = abort([lis EXCEPT !.aborted = TRUE], 1)
    /\ UNCHANGED lisRest

\* ------------------------------------------------ the two paths compared
\* One send is run on one path to its end, the page is loaded again in the
\* other environment, and the send is run again; each run is a number of
\* chunks, every one a whole event carrying a delta, followed by the end of
\* the stream or by a stop.

\* No send has been run yet.
NoRun ==
    [done |-> FALSE, chunks |-> 0, aborted |-> FALSE,
     result |-> [outcome |-> "none", content |-> <<>>, requests |-> 0]]

\* What the send that has ended has come to: its outcome, the content of its
\* assistant message, the requests it has issued.
RunResult ==
    LET history == sessions[hsm.requestSessionId].history
        histIndex == findIndex(history, hsm.assistantMsgId)
    IN  [outcome |-> hsm.outcome,
         content |-> IF histIndex = 0 THEN <<>> ELSE history[histIndex].content,
         requests |-> net.requests]

\* A send has ended and nothing of it is pending.
RunOver == net.sends = 1 /\ hsm.pc = "idle" /\ stop = "idle"

\* The events of the run are still coming: the send is in flight and no stop
\* has been asked for.
RunOpen == hsm.pc = "awaiting" /\ stop = "idle" /\ ~abortController.aborted

\* The page is loaded in the other environment once the first run is over:
\* the state is that of a fresh load, and the first run is kept for the
\* comparison.
SwitchPath ==
    /\ ~firstRun.done
    /\ RunOver
    /\ firstRun' = [done |-> TRUE, chunks |-> net.chunks,
                    aborted |-> abortController.aborted, result |-> RunResult]
    /\ tauri' = ~tauri
    /\ sessions' = [s \in SessionIds |-> [history |-> <<>>]]
    /\ currentSessionId' = "s1"
    /\ generatingSessionId' = NoSession
    /\ abortController' = [exists |-> FALSE, aborted |-> FALSE, listeners |-> {}]
    /\ streamAnimationFrameId' = FALSE
    /\ view' = [frames |-> 0, sessionId |-> "s1", history |-> <<>>,
                requested |-> FALSE]
    /\ currentStreamId' = 0
    /\ streamChunkListener' = 0
    /\ streamErrorListener' = 0
    /\ subscribed' = {}
    /\ hsm' = [pc |-> "idle", requestSessionId |-> NoSession,
               assistantMsgId |-> 0, outcome |-> "none", rawResponse |-> <<>>]
    /\ sendResult' = "none"
    /\ rounds' = <<>>
    /\ stop' = "idle"
    /\ net' = [sends |-> 0, requests |-> 0, chunks |-> 0]
    /\ UNCHANGED <<settings, editingIndex, lis, dec, think, sm>>

\* ------------------------------------------------ the decoder on its own
\* One event stream fed to the chunk handler's decoder in chunks cut at
\* arbitrary points; split records that it came in more than one chunk.

StreamOpenAI ==
    <<"d", "a", "t", "a", ":", " ", "{", "\"", "c", "h", "o", "i", "c", "e", "s", "\"", ":", "[", "{", "\"", "d", "e", "l", "t", "a", "\"", ":", "{", "\"", "c", "o", "n", "t", "e", "n", "t", "\"", ":", "\"", "h", "i", "\"", "}", ",", "\"", "f", "i", "n", "i", "s", "h", "_", "r", "e", "a", "s", "o", "n", "\"", ":", "n", "u", "l", "l", "}", "]", "}", "\n", "\n", "d", "a", "t", "a", ":", " ", "[", "D", "O", "N", "E", "]", "\n", "\n">>
StreamOllama ==
    <<"d", "a", "t", "a", ":", " ", "A", "\n", "\n", "\n", "d", "a", "t", "a", ":", " ", "B", "\n", "\n", "{", "\"", "m", "e", "s", "s", "a", "g", "e", "\"", ":", "{", "\"", "c", "o", "n", "t", "e", "n", "t", "\"", ":", "\"", "C", "\"", "}", ",", "\"", "d", "o", "n", "e", "\"", ":", "t", "r", "u", "e", "}", "\n", "\n">>
StreamLines ==
    <<"d", "a", "t", "a", ":", " ", "A", "\n", " ", "d", "a", "t", "a", ":", " ", "B", " ", "\n", "\n", " ", "d", "a", "t", "a", ":", " ", "\n", "\n", "d", "a", "t", "a", ":", "x", "\n", "\n", "\n", "\n", "{", "\"", "a", "\n", "\n", "n", "u", "l", "l", "\n", "\n", "d", "a", "t", "a", ":", " ", "C", "\n">>
Streams == {StreamOpenAI, StreamOllama, StreamLines}

DecIdle ==
    [stream |-> <<>>, pos |-> 0, sseBuffer |-> <<>>, payloads |-> <<>>,
     fullResponse |-> <<>>, streamActuallyFinished |-> FALSE, onTauri |-> TRUE,
     split |-> FALSE]

\* The decoder after a chunk of n characters decoded d.
DecApply(n, d) ==
    dec' = [dec EXCEPT !.pos = @ + n,
                       !.split = dec.pos > 0,
                       !.sseBuffer = d.sseBuffer,
                       !.payloads = @ \o d.payloads,
                       !.fullResponse = d.acc.fullResponse,
                       !.streamActuallyFinished = d.acc.streamActuallyFinished]

\* The next n characters of the stream arrive as one chunk.
DecFeed(n) ==
    /\ dec.pos + n <= Len(dec.stream)
    /\ DecApply(n, Decode(dec.sseBuffer, dec.fullResponse,
                          dec.streamActuallyFinished,
                          SubSeq(dec.stream, dec.pos + 1, dec.pos + n),
                          dec.onTauri))
    /\ UNCHANGED <<mainVars, think, sm>>

\* ------------------------------------------------- the parser on its own
\* Event streams made of whole events, one per payload, fed to the decoder
\* one or more events to the chunk.

\* The events of a stream.
MaxPayloads == 2

\* Payloads of the dialects the handlers probe: the OpenAI and the Ollama
\* record, a finish reason in the first choice and at top level, the text
\* "null" and the empty text as a finish reason, literal text, a record cut
\* short, a record with both content fields, one with an empty choices array
\* beside a message, and the JSON null.
P_OpenAI ==
    <<"{", "\"", "c", "h", "o", "i", "c", "e", "s", "\"", ":", "[", "{", "\"", "d", "e", "l", "t", "a", "\"", ":", "{", "\"", "c", "o", "n", "t", "e", "n", "t", "\"", ":", "\"", "h", "i", "\"", "}", ",", "\"", "f", "i", "n", "i", "s", "h", "_", "r", "e", "a", "s", "o", "n", "\"", ":", "n", "u", "l", "l", "}", "]", "}">>
P_Ollama ==
    <<"{", "\"", "m", "e", "s", "s", "a", "g", "e", "\"", ":", "{", "\"", "c", "o", "n", "t", "e", "n", "t", "\"", ":", "\"", "h", "i", "\"", "}", ",", "\"", "d", "o", "n", "e", "\"", ":", "t", "r", "u", "e", "}">>
P_ChoiceStop ==
    <<"{", "\"", "c", "h", "o", "i", "c", "e", "s", "\"", ":", "[", "{", "\"", "d", "e", "l", "t", "a", "\"", ":", "{", "}", ",", "\"", "f", "i", "n", "i", "s", "h", "_", "r", "e", "a", "s", "o", "n", "\"", ":", "\"", "s", "t", "o", "p", "\"", "}", "]", "}">>
P_TopStop ==
    <<"{", "\"", "f", "i", "n", "i", "s", "h", "_", "r", "e", "a", "s", "o", "n", "\"", ":", "\"", "s", "t", "o", "p", "\"", "}">>
P_TopNullText ==
    <<"{", "\"", "f", "i", "n", "i", "s", "h", "_", "r", "e", "a", "s", "o", "n", "\"", ":", "\"", "n", "u", "l", "l", "\"", ",", "\"", "d", "o", "n", "e", "\"", ":", "f", "a", "l", "s", "e", "}">>
P_ChoiceEmptyReason ==
    <<"{", "\"", "c", "h", "o", "i", "c", "e", "s", "\"", ":", "[", "{", "\"", "d", "e", "l", "t", "a", "\"", ":", "{", "\"", "c", "o", "n", "t", "e", "n", "t", "\"", ":", "\"", "x", "\"", "}", ",", "\"", "f", "i", "n", "i", "s", "h", "_", "r", "e", "a", "s", "o", "n", "\"", ":", "\"", "\"", "}", "]", "}">>
P_Plain ==
    <<"p", "l", "a", "i", "n", " ", "t", "e", "x", "t", " ", "f", "r", "a", "g", "m", "e", "n", "t">>
P_Broken ==
    <<"{", "\"", "c", "h", "o", "i", "c", "e", "s", "\"", ":">>
P_Both ==
    <<"{", "\"", "c", "h", "o", "i", "c", "e", "s", "\"", ":", "[", "{", "\"", "d", "e", "l", "t", "a", "\"", ":", "{", "\"", "c", "o", "n", "t", "e", "n", "t", "\"", ":", "\"", "x", "\"", "}", "}", "]", ",", "\"", "m", "e", "s", "s", "a", "g", "e", "\"", ":", "{", "\"", "c", "o", "n", "t", "e", "n", "t", "\"", ":", "\"", "y", "\"", "}", "}">>
P_EmptyChoices ==
    <<"{", "\"", "c", "h", "o", "i", "c", "e", "s", "\"", ":", "[", "]", ",", "\"", "m", "e", "s", "s", "a", "g", "e", "\"", ":", "{", "\"", "c", "o", "n", "t", "e", "n", "t", "\"", ":", "\"", "h", "i", "\"", "}", "}">>
P_Null ==
    <<"n", "u", "l", "l">>
Payloads ==
    {T_Done, P_OpenAI, P_Ollama, P_ChoiceStop, P_TopStop, P_TopNullText,
     P_ChoiceEmptyReason, P_Plain, P_Broken, P_Both, P_EmptyChoices, P_Null}

\* The event block that carries the payload p.
EventOf(p) == T_DataSp \o p \o T_NLNL

RECURSIVE EventStream(_)
EventStream(ps) ==
    IF ps = <<>> THEN <<>> ELSE EventOf(ps[1]) \o EventStream(Tail(ps))

\* The position in s of the end of the n-th event after position from;
\* 0 if fewer are left.
RECURSIVE EventsEnd(_, _, _)
EventsEnd(s, from, n) ==
    LET boundary == indexOf(s, T_NLNL, from + 1)
    IN  IF boundary = 0 THEN 0
        ELSE IF n = 1 THEN boundary + 1
        ELSE EventsEnd(s, boundary + 1, n - 1)

\* The next n events of the stream arrive as one chunk.
DecFeedEvents(n) ==
    LET end == EventsEnd(dec.stream, dec.pos, n)
    IN  /\ end # 0
        /\ DecFeed(end - dec.pos)

\* ------------------------------------------ parseThinkContent on its own
\* Raw texts made of the two tags, a letter and a blank.

\* The pieces of a raw text.
MaxTokens == 4

ThinkTokens == {T_ThinkOpen, T_ThinkClose, <<"a">>, <<" ">>}

\* The text the pieces make.
RECURSIVE Flat(_)
Flat(tokens) ==
    IF tokens = <<>> THEN <<>> ELSE tokens[1] \o Flat(Tail(tokens))

\* No call made.
ThinkIdle ==
    [tokens |-> <<>>, parsed |-> FALSE,
     parts |-> [thinking |-> JNull, content |-> <<>>]]

\* parseThinkContent(rawContent) is called on the text.
ThinkParse ==
    /\ ~think.parsed
    /\ think' = [think EXCEPT !.parsed = TRUE,
                              !.parts = parseThinkContent(Flat(think.tokens))]
    /\ UNCHANGED <<mainVars, dec, sm>>

\* --------------------------------------------------- session management
\* The sessions by their ids alone, the storage as the two items
\* loadSessions and saveSessions use, and the calls suspended at an await of
\* the storage.  storage.getItem and storage.setItem are asynchronous: a call
\* suspended at one resumes in a later task, and other handlers run before.

\* The ids sessions have, created or imported.
SessionPool == {"a", "b", "c"}

\* The calls that may be suspended at the storage at one time.
MaxCalls == 2

\* storage.getItem(key) and storage.setItem(key, value) of ./store.js, a
\* key-value store: an item read is the item last written.
getItem(st, key) == st[key]
setItem(st, key, value) == [st EXCEPT ![key] = value]

\* No dialog is open.
NoModal == [type |-> "none", sessionId |-> NoSession]

\* The state after initialize() on a first launch: the store is empty,
\* createNewSession has made the first session and its save has completed.
FirstLaunch ==
    [sessions |-> {"a"}, currentSessionId |-> "a", isPrivateMode |-> FALSE,
     generatingSessionId |-> NoSession,
     stored |-> [sessions |-> {"a"}, current |-> "a"],
     modal |-> NoModal, calls |-> <<>>]

\* A saveSessions call awaiting its first setItem, with what its caller does
\* once it returns.
SaveCall(then) ==
    [fn |-> "saveSessions", pc |-> "sessions", then |-> then,
     got |-> [sessions |-> {}, current |-> NoSession]]

\* A loadSessions call awaiting its first getItem, which reads the stored
\* sessions st.
LoadCall(st, then) ==
    [fn |-> "loadSessions", pc |-> "sessions", then |-> then,
     got |-> [sessions |-> getItem(st, "sessions"), current |-> NoSession]]

\* The ids a new session can get: `session_${Date.now()}` is an id no
\* session in memory or in the store has.
FreshIds(s) == SessionPool \ (s.sessions \cup s.stored.sessions)

\* The sequence q without its i-th element.
RemoveAt(q, i) == SubSeq(q, 1, i - 1) \o SubSeq(q, i + 1, Len(q))

RECURSIVE saveSessions(_, _)
RECURSIVE switchSession(_, _, _)
RECURSIVE createNewSession(_)
RECURSIVE Return(_, _)

\* saveSessions(), after which the caller does `then`: nothing in private
\* mode; else the sessions go to the store and the call awaits.
saveSessions(s, then) ==
    IF s.isPrivateMode THEN Return(s, then)
    ELSE [s EXCEPT !.stored = setItem(@, "sessions", s.sessions),
                   !.calls = Append(@, SaveCall(then))]

\* switchSession(sessionId), after which the caller does `then`.
switchSession(s, sessionId, then) ==
    IF sessionId \in s.sessions
    THEN saveSessions([s EXCEPT !.currentSessionId = sessionId], then)
    ELSE Return(s, then)

\* createNewSession()
createNewSession(s) ==
    LET newId == CHOOSE id \in FreshIds(s) : TRUE
    IN  switchSession([s EXCEPT !.sessions = @ \cup {newId}], newId, "return")

\* What a caller does after the call it awaited: the rest of the
\* deleteSession callback, of the clearAllChats callback and of
\* setPrivateMode(false).
Return(s, then) ==
    CASE then = "saveSessions" -> saveSessions(s, "return")
      [] then = "createNewSession" -> createNewSession(s)
      [] then = "ensureSession" ->
             IF s.currentSessionId = NoSession
                \/ s.currentSessionId \notin s.sessions
             THEN createNewSession(s)
             ELSE s
      [] OTHER -> s

\* setPrivateMode(enabled)
setPrivateMode(s, enabled) ==
    IF enabled THEN [s EXCEPT !.isPrivateMode = TRUE]
    ELSE [s EXCEPT !.isPrivateMode = FALSE,
                   !.sessions = {},
                   !.currentSessionId = NoSession,
                   !.calls = Append(@, LoadCall(s.stored, "ensureSession"))]

\* The callback of the confirm dialog m.
Confirmed(s, m) ==
    CASE m.type = "delete" ->
             IF Cardinality(s.sessions) <= 1 THEN {s}
             ELSE LET s1 == [s EXCEPT !.sessions = @ \ {m.sessionId}]
                  IN  IF s.currentSessionId = m.sessionId
                      THEN {switchSession(s1, first, "saveSessions") :
                                first \in s1.sessions}
                      ELSE {saveSessions(s1, "return")}
      [] m.type = "clear" ->
             {saveSessions([s EXCEPT !.sessions = {},
                                     !.currentSessionId = NoSession],
                           "createNewSession")}
      [] OTHER -> {setPrivateMode(s, FALSE)}

\* The call c of s resumes after its await.
Resumed(s, i) ==
    LET c == s.calls[i]
        rest == [s EXCEPT !.calls = RemoveAt(@, i)]
    IN  CASE c.fn = "saveSessions" /\ c.pc = "sessions" ->
                 [s EXCEPT !.stored = setItem(@, "current", s.currentSessionId),
                           !.calls[i].pc = "current"]
          [] c.fn = "saveSessions" /\ c.pc = "current" ->
                 Return(rest, c.then)
          [] c.fn = "loadSessions" /\ c.pc = "sessions" ->
                 [s EXCEPT !.sessions = c.got.sessions,
                           !.calls[i].got.current = getItem(s.stored, "current"),
                           !.calls[i].pc = "current"]
          [] OTHER ->
                 Return([rest EXCEPT !.currentSessionId = c.got.current],
                        c.then)

\* The page takes a click: no dialog covers it.  A handler that may start n
\* calls at the storage runs while that many more may be suspended, and one
\* that may create a session while an id is left for it.
PageOpen(n) ==
    /\ sm.modal = NoModal
    /\ Len(sm.calls) + n <= MaxCalls
    /\ FreshIds(sm) # {}

smRest == <<mainVars, dec, think>>

\* The new-chat button.
NewSessionClick ==
    /\ PageOpen(1)
    /\ sm' = createNewSession(sm)
    /\ UNCHANGED smRest

\* A click on the session sessionId of the list.
SessionClick(sessionId) ==
    /\ PageOpen(1)
    /\ sessionId \in sm.sessions
    /\ sm' = switchSession(sm, sessionId, "return")
    /\ UNCHANGED smRest

\* deleteSession(e, sessionId) up to the dialog.
DeleteClick(sessionId) ==
    /\ PageOpen(0)
    /\ sessionId \in sm.sessions
    /\ sm' = IF sm.generatingSessionId = sessionId THEN sm
             ELSE [sm EXCEPT !.modal = [type |-> "delete",
                                        sessionId |-> sessionId]]
    /\ UNCHANGED smRest

\* clearAllChats() up to the dialog.
ClearAllClick ==
    /\ PageOpen(0)
    /\ sm' = IF sm.generatingSessionId # NoSession THEN sm
             ELSE [sm EXCEPT !.modal = [type |-> "clear",
                                        sessionId |-> NoSession]]
    /\ UNCHANGED smRest

\* togglePrivateMode()
PrivateModeClick ==
    /\ PageOpen(0)
    /\ sm' = IF sm.isPrivateMode
             THEN [sm EXCEPT !.modal = [type |-> "private",
                                        sessionId |-> NoSession]]
             ELSE setPrivateMode(sm, TRUE)
    /\ UNCHANGED smRest

\* The confirm button of the dialog.
ModalConfirm ==
    /\ sm.modal # NoModal
    /\ Len(sm.calls) < MaxCalls
    /\ FreshIds(sm) # {}
    /\ sm' \in Confirmed([sm EXCEPT !.modal = NoModal], sm.modal)
    /\ UNCHANGED smRest

\* The cancel button of the dialog.
ModalCancel ==
    /\ sm.modal # NoModal
    /\ sm' = [sm EXCEPT !.modal = NoModal]
    /\ UNCHANGED smRest

\* reader.onload of importAllChats: the file holds the sessions imported, or
\* does not parse.
ImportLoaded(imported, parses) ==
    /\ PageOpen(2)
    /\ sm' = IF ~parses THEN sm
             ELSE LET s1 == saveSessions(
                                [sm EXCEPT !.sessions = @ \cup imported],
                                "return")
                  IN  IF s1.sessions = {} THEN s1
                      ELSE switchSession(s1, CHOOSE latest \in s1.sessions :
                                                 latest \in imported
                                                 \/ imported = {},
                                         "return")
    /\ UNCHANGED smRest

\* A call suspended at the storage resumes.
StorageResumes(i) ==
    /\ i \in DOMAIN sm.calls
    /\ FreshIds(sm) # {}
    /\ sm' = Resumed(sm, i)
    /\ UNCHANGED smRest

\* handleSendMessage takes the displayed session for a send.
SendStarts ==
    /\ sm.modal = NoModal
    /\ sm.generatingSessionId = NoSession
    /\ sm.currentSessionId \in sm.sessions
    /\ sm' = [sm EXCEPT !.generatingSessionId = sm.currentSessionId]
    /\ UNCHANGED smRest

\* The finally block of handleSendMessage.
SendEnds ==
    /\ sm.generatingSessionId # NoSession
    /\ sm' = [sm EXCEPT !.generatingSessionId = NoSession]
    /\ UNCHANGED smRest

\* ------------------------------------------------------- specifications

\* The state after the page has loaded, the current session holding history
\* and the settings a context length.
InitFrom(history, maxContextLength) ==
    /\ settings \in [model : BOOLEAN, autoContinueStream : BOOLEAN,
                      apiEndpoint : BOOLEAN,
                      maxContextLength : {maxContextLength}]
    /\ tauri \in BOOLEAN
    /\ sessions = [s \in SessionIds |->
                      [history |-> IF s = "s1" THEN history ELSE <<>>]]
    /\ currentSessionId = "s1"
    /\ generatingSessionId = NoSession
    /\ editingIndex = 0
    /\ lis = NoStreams
    /\ firstRun = NoRun
    /\ abortController = [exists |-> FALSE, aborted |-> FALSE, listeners |-> {}]
    /\ streamAnimationFrameId = FALSE
    /\ view = [frames |-> 0, sessionId |-> "s1", history |-> history,
               requested |-> FALSE]
    /\ currentStreamId = 0
    /\ streamChunkListener = 0
    /\ streamErrorListener = 0
    /\ subscribed = {}
    /\ hsm = [pc |-> "idle", requestSessionId |-> NoSession, assistantMsgId |-> 0,
              outcome |-> "none", rawResponse |-> <<>>]
    /\ sendResult = "none"
    /\ rounds = <<>>
    /\ stop = "idle"
    /\ net = [sends |-> 0, requests |-> 0, chunks |-> 0]

InitMain == InitFrom(<<>>, DefaultMaxContextLength)

Init ==
    /\ InitMain
    /\ dec = DecIdle
    /\ think = ThinkIdle
    /\ sm = FirstLaunch

Next ==
    \/ \E hasPrompt \in BOOLEAN : HandleSendMessage(hasPrompt)
    \/ SendRequest
    \/ \E chunk \in Chunks : HandleStreamChunk(chunk)
    \/ HandleStreamError
    \/ StreamCallResolved
    \/ StreamCallRejected
    \/ ContinueAfterDelay
    \/ \E ok \in BOOLEAN : FetchResponded(ok)
    \/ FetchFailed
    \/ \E chunk \in Chunks : FetchChunk(chunk)
    \/ FetchDone
    \/ StopGeneration
    \/ StopAfterCancel
    \/ \E sessionId \in SessionIds : SwitchSession(sessionId)
    \/ RenderFrame

Spec == Init /\ [][Next]_vars

InitDecode ==
    /\ InitMain
    /\ settings = [model |-> TRUE, autoContinueStream |-> FALSE,
                   apiEndpoint |-> TRUE,
                   maxContextLength |-> DefaultMaxContextLength]
    /\ tauri
    /\ dec \in {[DecIdle EXCEPT !.stream = s, !.onTauri = b] :
                   s \in Streams, b \in BOOLEAN}
    /\ think = ThinkIdle
    /\ sm = FirstLaunch

NextDecode == \E n \in 1..Len(dec.stream) : DecFeed(n)

SpecDecode == InitDecode /\ [][NextDecode]_vars

InitParse ==
    /\ InitMain
    /\ settings = [model |-> TRUE, autoContinueStream |-> FALSE,
                   apiEndpoint |-> TRUE,
                   maxContextLength |-> DefaultMaxContextLength]
    /\ tauri
    /\ dec \in {[DecIdle EXCEPT !.stream = EventStream(ps), !.onTauri = b] :
                   ps \in [1..MaxPayloads -> Payloads], b \in BOOLEAN}
    /\ think = ThinkIdle
    /\ sm = FirstLaunch

NextParse == \E n \in 1..MaxPayloads : DecFeedEvents(n)

SpecParse == InitParse /\ [][NextParse]_vars

InitThink ==
    /\ InitMain
    /\ settings = [model |-> TRUE, autoContinueStream |-> FALSE,
                   apiEndpoint |-> TRUE,
                   maxContextLength |-> DefaultMaxContextLength]
    /\ tauri
    /\ dec = DecIdle
    /\ think \in {[ThinkIdle EXCEPT !.tokens = t] :
                     t \in UNION {[1..n -> ThinkTokens] : n \in 0..MaxTokens}}
    /\ sm = FirstLaunch

NextThink == ThinkParse

SpecThink == InitThink /\ [][NextThink]_vars

\* Sends whose transport delivers whole events and events left open, and
\* ends, with no error and no stop.
EndChunks == {ChunkA, ChunkPart}

InitEnd ==
    /\ Init
    /\ settings.model
    /\ settings.apiEndpoint

NextEnd ==
    \/ HandleSendMessage(TRUE)
    \/ SendRequest
    \/ \E chunk \in EndChunks : HandleStreamChunk(chunk)
    \/ StreamCallResolved
    \/ ContinueAfterDelay
    \/ FetchResponded(TRUE)
    \/ \E chunk \in EndChunks : FetchChunk(chunk)
    \/ FetchDone

SpecEnd == InitEnd /\ [][NextEnd]_vars

\* An earlier exchange of the current session, one question and its answer.
PriorHistory ==
    <<UserMessage(101, <<"P">>),
      [Placeholder(102) EXCEPT !.content = <<"R">>,
                               !.dialogueInfo = MetricsInfo]>>

\* A send and the edit controls of the messages, in a session that already
\* holds an exchange.
InitEdit ==
    /\ InitFrom(PriorHistory, DefaultMaxContextLength)
    /\ settings = [model |-> TRUE, autoContinueStream |-> FALSE,
                   apiEndpoint |-> TRUE,
                   maxContextLength |-> DefaultMaxContextLength]
    /\ dec = DecIdle
    /\ think = ThinkIdle
    /\ sm = FirstLaunch

NextEdit ==
    \/ HandleSendMessage(TRUE)
    \/ SendRequest
    \/ HandleStreamChunk(ChunkA)
    \/ StreamCallResolved
    \/ FetchResponded(TRUE)
    \/ FetchChunk(ChunkA)
    \/ FetchDone
    \/ RenderFrame
    \/ \E index \in DOMAIN sessions[currentSessionId].history : EditMessage(index)
    \/ CancelEdit
    \/ \E newContent \in EditContents : ConfirmEdit(newContent)
    \/ \E messageIndex \in DOMAIN sessions[currentSessionId].history :
           RegenerateResponse(messageIndex)

SpecEdit == InitEdit /\ [][NextEdit]_vars

\* The context lengths of the sends whose requests are looked at; the form
\* keeps settings.maxContextLength a whole number from 1 to 100.
MaxContext == 3

\* A send with automatic continuation in a session that already holds an
\* exchange, under each context length.
InitRequest ==
    /\ \E maxContextLength \in 1..MaxContext :
           InitFrom(PriorHistory, maxContextLength)
    /\ settings.model
    /\ settings.autoContinueStream
    /\ settings.apiEndpoint
    /\ dec = DecIdle
    /\ think = ThinkIdle
    /\ sm = FirstLaunch

SpecRequest == InitRequest /\ [][NextEnd]_vars

\* The streams of the event path one by one.
InitListeners ==
    /\ InitMain
    /\ settings = [model |-> TRUE, autoContinueStream |-> TRUE,
                   apiEndpoint |-> TRUE,
                   maxContextLength |-> DefaultMaxContextLength]
    /\ tauri
    /\ dec = DecIdle
    /\ think = ThinkIdle
    /\ sm = FirstLaunch

NextListeners ==
    \/ \E newSend \in BOOLEAN : OpenStream(newSend)
    \/ \E n \in 1..MaxStreams, isChunk \in BOOLEAN : ListenResolved(n, isChunk)
    \/ \E n \in 1..MaxStreams : CleanupResumes(n)
    \/ \E n \in 1..MaxStreams, how \in {"resolved", "continued", "error"} :
           InvokeSettled(n, how)
    \/ \E n \in 1..MaxStreams : StreamErrorEvent(n)
    \/ StopFires

SpecListeners == InitListeners /\ [][NextListeners]_vars

\* A send without automatic continuation, run on each path in turn.
InitPaths ==
    /\ Init
    /\ settings.model
    /\ settings.apiEndpoint
    /\ ~settings.autoContinueStream

NextPaths ==
    \/ HandleSendMessage(TRUE)
    \/ SendRequest
    \/ RunOpen /\ HandleStreamChunk(ChunkA)
    \/ RunOpen /\ StreamCallResolved
    \/ RunOpen /\ FetchResponded(TRUE)
    \/ RunOpen /\ FetchChunk(ChunkA)
    \/ RunOpen /\ FetchDone
    \/ hsm.pc = "awaiting" /\ StopGeneration
    \/ StopAfterCancel
    \/ RenderFrame
    \/ SwitchPath

SpecPaths == InitPaths /\ [][NextPaths]_vars

InitSessions ==
    /\ InitMain
    /\ settings = [model |-> TRUE, autoContinueStream |-> FALSE,
                   apiEndpoint |-> TRUE,
                   maxContextLength |-> DefaultMaxContextLength]
    /\ tauri
    /\ dec = DecIdle
    /\ think = ThinkIdle
    /\ sm = FirstLaunch

NextSessions ==
    \/ NewSessionClick
    \/ \E sessionId \in SessionPool : SessionClick(sessionId)
    \/ \E sessionId \in SessionPool : DeleteClick(sessionId)
    \/ ClearAllClick
    \/ PrivateModeClick
    \/ ModalConfirm
    \/ ModalCancel
    \/ \E imported \in SUBSET SessionPool, parses \in BOOLEAN :
           ImportLoaded(imported, parses)
    \/ \E i \in 1..MaxCalls : StorageResumes(i)
    \/ SendStarts
    \/ SendEnds

SpecSessions == InitSessions /\ [][NextSessions]_vars

\* ----------------------------------------------------------- properties

\* The assistant message the send h writes, in the sessions ss.
OwnMessage(ss, h) ==
    LET history == ss[h.requestSessionId].history
    IN  history[findIndex(history, h.assistantMsgId)]

\* The text the rounds rs of a send have accumulated, in order.
RECURSIVE Accumulated(_)
Accumulated(rs) ==
    IF rs = <<>> THEN <<>> ELSE rs[1].fullResponse \o Accumulated(Tail(rs))

\* A step in which the send in flight reaches the end of handleSendMessage.
Settles == hsm.pc # "idle" /\ hsm'.pc = "idle"

\* A step of handleSendMessage that the state shows.
Attempt == sendResult' # sendResult \/ net'.sends # net.sends

\* The errors a transport reports.
TransportErrors ==
    {TransportErrorText, InvokeErrorText, HttpErrorText, NetworkErrorText}

EndsWith(s, pat) ==
    /\ Len(pat) <= Len(s)
    /\ SubSeq(s, Len(s) - Len(pat) + 1, Len(s)) = pat

\* The last round of rs has resolved or rejected: the transport has nothing
\* more to deliver to the send.
TransportOver(rs) == rs # <<>> /\ rs[Len(rs)].pc \in {"resolved", "rejected"}

\* C1: when a send whose rounds have accumulated text ends with the user's
\* stop fired, its assistant message holds the text of all the rounds, think
\* tags split off (the stopped marker if nothing is left), its dialogueInfo
\* holds 'N/A' for tokensPerSecond and timeToFirstToken, and it is not
\* flagged as an error.
C1_StoppedKeepsAccumulatedText ==
    [][(/\ ~TransportOver(rounds)
        /\ TransportOver(rounds')
        /\ abortController'.aborted
        /\ Accumulated(rounds') # <<>>) =>
          LET m == OwnMessage(sessions', hsm')
              text == parseThinkContent(Accumulated(rounds')).content
          IN  /\ m.content = IF text # <<>> THEN text ELSE StoppedMarker
              /\ m.dialogueInfo = StoppedInfo
              /\ ~m.isError]_vars

\* C2: with auto-continuation on, when the second round has seen a finish
\* signal (the first, having been continued, saw none), two requests were
\* issued and no third follows, the continuation count went from 0 to 1 and
\* no further, and a completed send hands the splitter the first round's text
\* followed by the second round's.
C2_ContinuationJoinsBothRounds ==
    (Len(rounds) >= 2 /\ rounds[2].streamActuallyFinished) =>
        /\ settings.autoContinueStream
        /\ ~rounds[1].streamActuallyFinished
        /\ Len(rounds) = 2
        /\ net.requests = 2
        /\ (hsm.pc = "idle" /\ hsm.outcome = "completed") =>
               hsm.rawResponse = rounds[1].fullResponse \o rounds[2].fullResponse

\* C2's case: a completed send of two rounds, the first with text T1 and no
\* finish signal, the second with another text T2 and a finish signal.
C2_Witness ==
    /\ hsm.pc = "idle"
    /\ hsm.outcome = "completed"
    /\ Len(rounds) = 2
    /\ rounds[2].streamActuallyFinished
    /\ rounds[1].fullResponse # <<>>
    /\ rounds[2].fullResponse # <<>>
    /\ rounds[1].fullResponse # rounds[2].fullResponse

\* C3: a send is never accepted for a session that has a request in flight,
\* and the attempt that is refused as busy leaves every session's history,
\* and so that session's, as it was.
C3_BusyAttemptLeavesHistory ==
    [][/\ net'.sends # net.sends => generatingSessionId # currentSessionId
       /\ (sendResult' = "busy" /\ sendResult # "busy") =>
              (sessions' = sessions /\ net'.sends = net.sends)]_vars

\* C3's case: a send was refused as busy and the displayed session is the
\* one generating, with its user message and its placeholder.
C3_Witness ==
    /\ sendResult = "busy"
    /\ generatingSessionId = currentSessionId
    /\ hsm.pc = "awaiting"
    /\ Len(sessions[currentSessionId].history) = 2

\* C4: every accepted send settles.  Once the last round of a send has
\* resolved or rejected, no event of the transport is left that could settle
\* the send, so the claim requires that by then handleSendMessage has reached
\* its end and generatingSessionId is null again.
C4_SettlesWhenTransportEnds ==
    TransportOver(rounds) => (hsm.pc = "idle" /\ generatingSessionId = NoSession)

\* C5: a send that ends once the user's stop has fired ends as user-stopped,
\* never as completed and never as failed.
C5_StopEndsAsStopped ==
    [][(Settles /\ abortController'.aborted) => hsm'.outcome = "stopped"]_vars

\* C6: once the stop has fired for the send in flight, a step either leaves
\* the accumulated text and the owning message as they were, or is the
\* stopped finalization.
C6_OnlyStoppedFinalizationAfterAbort ==
    [][(hsm.pc = "awaiting" /\ abortController'.aborted) =>
          \/ /\ OwnMessage(sessions', hsm') = OwnMessage(sessions, hsm)
             /\ Accumulated(rounds') = Accumulated(rounds)
          \/ Settles /\ hsm'.outcome = "stopped"]_vars

\* C7: a round that a transport error has ended is the last round of its
\* send, and the send has ended as failed with the error marker and the
\* error's text in its assistant message, flagged as an error.
C7_TransportErrorFailsTheSend ==
    \A k \in DOMAIN rounds :
        (rounds[k].pc = "rejected" /\ rounds[k].error.message \in TransportErrors)
            => /\ k = Len(rounds)
               /\ hsm.pc = "idle"
               /\ hsm.outcome = "failed"
               /\ OwnMessage(sessions, hsm).isError
               /\ startsWith(OwnMessage(sessions, hsm).content, ErrorMarker)
               /\ EndsWith(OwnMessage(sessions, hsm).content,
                           rounds[k].error.message)

\* C8: a send issues at most 1 + 3 requests, the continuation count of a
\* round that continues is within 0..2 and of every round within 0..3, and
\* when the stream of the last permitted round ends the send completes,
\* finish signal or none.
C8_ContinuationsBounded ==
    /\ Len(rounds) <= MaxContinuations + 1
    /\ net.requests <= MaxContinuations + 1
    /\ \A k \in DOMAIN rounds :
           /\ k - 1 \in 0..MaxContinuations
           /\ rounds[k].pc \in {"delay", "awaiting", "orphaned"} =>
                  k - 1 < MaxContinuations
    /\ (Len(rounds) = MaxContinuations + 1
            /\ rounds[Len(rounds)].pc = "resolved") =>
           /\ hsm.pc = "idle"
           /\ hsm.outcome = "completed"
           /\ generatingSessionId = NoSession

\* C8's case: the fourth round's stream ended without a finish signal and
\* the send completed after four requests.
C8_Witness ==
    /\ Len(rounds) = MaxContinuations + 1
    /\ rounds[Len(rounds)].pc = "resolved"
    /\ ~rounds[Len(rounds)].streamActuallyFinished
    /\ net.requests = MaxContinuations + 1
    /\ hsm.pc = "idle"
    /\ hsm.outcome = "completed"

C10_ChunkingIndependent ==
    LET whole == Decode(<<>>, <<>>, FALSE, SubSeq(dec.stream, 1, dec.pos),
                        dec.onTauri)
    IN  /\ dec.payloads = whole.payloads
        /\ dec.sseBuffer = whole.sseBuffer
        /\ dec.fullResponse = whole.acc.fullResponse
        /\ dec.streamActuallyFinished = whole.acc.streamActuallyFinished

\* C10's case: a whole stream of several events, read in more than one
\* chunk, that gave text and a finish signal.
C10_Witness ==
    /\ dec.stream # <<>>
    /\ dec.pos = Len(dec.stream)
    /\ dec.split
    /\ Len(dec.payloads) > 1
    /\ dec.fullResponse # <<>>
    /\ dec.streamActuallyFinished

\* The payload p decodes to a record.
DecodesToRecord(p) == JSONParse(p).ok /\ JSONParse(p).v.t = "obj"

\* A finish reason other than null and other than the text "null".
ReasonGiven(v) == v.t \notin {"undef", "null"} /\ v # JStr(T_null)

\* A finish reason that counts as true (so not null, not false and not the
\* empty text) and is not the text "null".
ReasonSet(v) == Truthy(v) /\ v # JStr(T_null)

\* data.finish_reason and data.choices[0].finish_reason of the record d
TopReason(d) == Get(d, T_finish_reason)
ChoiceReason(d) == Get(At0(Get(d, T_choices)), T_finish_reason)

\* The payload p is the literal [DONE], or decodes to a record with a finish
\* reason other than null and "null" or with done equal to true.
SignalsGiven(p) ==
    \/ p = T_Done
    \/ /\ DecodesToRecord(p)
       /\ \/ ReasonGiven(TopReason(JSONParse(p).v))
          \/ ReasonGiven(ChoiceReason(JSONParse(p).v))
          \/ Get(JSONParse(p).v, T_done) = JBool(TRUE)

\* The same with a finish reason that counts as true.
SignalsSet(p) ==
    \/ p = T_Done
    \/ /\ DecodesToRecord(p)
       /\ \/ ReasonSet(TopReason(JSONParse(p).v))
          \/ ReasonSet(ChoiceReason(JSONParse(p).v))
          \/ Get(JSONParse(p).v, T_done) = JBool(TRUE)

\* C11 as the spec states it: the flag is set exactly when one of the
\* payloads handled so far is the literal [DONE], or decodes to a record with
\* a finish reason other than null and "null" at top level or in the first
\* choice, or with done equal to true; and [DONE] contributes no text.
C11_FlagExactlyOnFinishReasonGiven ==
    /\ dec.streamActuallyFinished =
           (\E i \in DOMAIN dec.payloads : SignalsGiven(dec.payloads[i]))
    /\ (\A i \in DOMAIN dec.payloads : dec.payloads[i] = T_Done) =>
           dec.fullResponse = <<>>

\* C11, amended: the same with a finish reason that is not null, not false,
\* not the empty text and not the text "null".
C11_FlagExactlyOnFinishSignal ==
    /\ dec.streamActuallyFinished =
           (\E i \in DOMAIN dec.payloads : SignalsSet(dec.payloads[i]))
    /\ (\A i \in DOMAIN dec.payloads : dec.payloads[i] = T_Done) =>
           dec.fullResponse = <<>>

\* C11's case: a record whose first choice has the empty text as finish
\* reason gave its text and no flag, and the literal [DONE] after it set the
\* flag and gave no text.
C11_Witness ==
    /\ dec.payloads = <<P_ChoiceEmptyReason, T_Done>>
    /\ dec.fullResponse = <<"x">>
    /\ dec.streamActuallyFinished

\* The text the claim gives a decoded record d: the first choice's delta
\* content if present, otherwise the message content, otherwise nothing.
ClaimedText(d) ==
    IF Truthy(DeltaContent(d)) THEN ToText(DeltaContent(d))
    ELSE IF Truthy(MessageContent(d)) THEN ToText(MessageContent(d))
    ELSE <<>>

RECURSIVE ClaimedTexts(_)
ClaimedTexts(ps) ==
    IF ps = <<>> THEN <<>>
    ELSE ClaimedText(JSONParse(ps[1]).v) \o ClaimedTexts(Tail(ps))

\* C12: when every payload handled so far decoded to a record, the text
\* accumulated is, payload by payload, the first choice's delta content if
\* present, otherwise the message content, otherwise nothing, on the event
\* path and on the fetch path; the OpenAI record alone gives ("hi", not
\* finished) and the Ollama record alone ("hi", finished).
C12_TextIsDeltaElseMessage ==
    /\ (\A i \in DOMAIN dec.payloads : DecodesToRecord(dec.payloads[i])) =>
           dec.fullResponse = ClaimedTexts(dec.payloads)
    /\ dec.payloads = <<P_OpenAI>> =>
           (dec.fullResponse = <<"h", "i">> /\ ~dec.streamActuallyFinished)
    /\ dec.payloads = <<P_Ollama>> =>
           (dec.fullResponse = <<"h", "i">> /\ dec.streamActuallyFinished)

\* What the handler makes of the payload p alone, on a fresh accumulator.
Alone(p, onTauri) == Decode(<<>>, <<>>, FALSE, EventOf(p), onTauri).acc

RECURSIVE TextsAlone(_, _)
TextsAlone(ps, onTauri) ==
    IF ps = <<>> THEN <<>>
    ELSE Alone(ps[1], onTauri).fullResponse \o TextsAlone(Tail(ps), onTauri)

\* What the claim requires of the result alone of a payload p that is not
\* [DONE] and does not decode.
LiteralOrSkipped(p, alone) ==
    /\ ~alone.streamActuallyFinished
    /\ alone.fullResponse = IF startsWith(p, <<"{">>) THEN <<>> ELSE p

\* C13: a payload that does not decode leaves the finish flag as it was and
\* appends itself as literal text if it does not start with "{", nothing if
\* it does; and the stream goes on: every event fed has yielded its payload,
\* and the text and the flag are those of each payload handled on its own,
\* in order, whatever came before it.
C13_UndecodablePayloadNeverFatal ==
    /\ \A i \in DOMAIN dec.payloads :
           (dec.payloads[i] # T_Done /\ ~JSONParse(dec.payloads[i]).ok) =>
               LiteralOrSkipped(dec.payloads[i],
                                Alone(dec.payloads[i], dec.onTauri))
    /\ EventStream(dec.payloads) = SubSeq(dec.stream, 1, dec.pos)
    /\ dec.fullResponse = TextsAlone(dec.payloads, dec.onTauri)
    /\ dec.streamActuallyFinished =
           (\E i \in DOMAIN dec.payloads :
                Alone(dec.payloads[i], dec.onTauri).streamActuallyFinished)

\* C13's case: a record cut short was skipped, and the literal text after it
\* was appended whole, with no finish flag.
C13_Witness ==
    /\ dec.payloads = <<P_Broken, P_Plain>>
    /\ dec.fullResponse = P_Plain
    /\ ~dec.streamActuallyFinished
    /\ dec.pos = Len(dec.stream)

\* A step in which a chunk handler appended text to the last round.
Appends ==
    /\ rounds # <<>>
    /\ Len(rounds') = Len(rounds)
    /\ net'.chunks = net.chunks + 1
    /\ rounds'[Len(rounds)].fullResponse # rounds[Len(rounds)].fullResponse

\* The owning session of the send in flight is the one displayed.
Displayed == currentSessionId = hsm.requestSessionId

\* C14: a chunk that appends text writes the owning message's content whether
\* the owning session is displayed or not, and schedules no render when it is
\* not; a switch of the displayed session changes nothing of the send: its
\* rounds, its message, its listeners and its abort controller stay.
C14_HiddenChunkWritesWithoutRender ==
    [][/\ Appends =>
              /\ OwnMessage(sessions', hsm').content =
                     rounds'[Len(rounds)].fullResponse
              /\ ~Displayed => (/\ view'.frames = view.frames
                                /\ streamAnimationFrameId' = streamAnimationFrameId)
       /\ currentSessionId' # currentSessionId =>
              /\ rounds' = rounds
              /\ sessions' = sessions
              /\ hsm' = hsm
              /\ generatingSessionId' = generatingSessionId
              /\ abortController' = abortController
              /\ subscribed' = subscribed]_vars

\* C14's case: both chunks of a send arrived while another session was
\* displayed: the owning message holds the text of both, the send has
\* requested no render and none is pending.
C14_Witness ==
    /\ hsm.pc = "awaiting"
    /\ ~Displayed
    /\ net.chunks = 2
    /\ ~view.requested
    /\ Len(OwnMessage(sessions, hsm).content) = 2
    /\ view.frames = 0
    /\ ~streamAnimationFrameId

\* C15: at most one animation frame callback is pending, and one is pending
\* exactly when the slot holds it; whenever the view changes it shows the
\* displayed session as it is at that moment, and the step in which the
\* pending callback runs leaves the view showing the latest history; no
\* callback is pending once the send has ended or the stop has fired.
C15_OneThrottledRender ==
    [][/\ view'.frames <= 1
       /\ streamAnimationFrameId' <=> (view'.frames = 1)
       /\ (view'.history # view.history \/ view'.sessionId # view.sessionId) =>
              /\ view'.sessionId = currentSessionId'
              /\ view'.history = sessions'[currentSessionId'].history
       /\ (/\ streamAnimationFrameId
           /\ ~streamAnimationFrameId'
           /\ sessions' = sessions
           /\ ~abortController'.aborted) =>
              /\ view'.sessionId = currentSessionId
              /\ view'.history = sessions[currentSessionId].history
       /\ (hsm'.pc = "idle" \/ abortController'.aborted) =>
              (view'.frames = 0 /\ ~streamAnimationFrameId')]_vars

\* C15's case: two chunks appended text while the owning session was
\* displayed, one render is pending, and the view still shows the message
\* empty: the second append scheduled nothing and the render is yet to run.
C15_Witness ==
    /\ hsm.pc = "awaiting"
    /\ Displayed
    /\ net.chunks = 2
    /\ view.requested
    /\ Len(OwnMessage(sessions, hsm).content) = 2
    /\ streamAnimationFrameId
    /\ view.frames = 1
    /\ view.sessionId = currentSessionId
    /\ view.history # sessions[currentSessionId].history

\* C17: with no model configured no send is accepted, no request is issued
\* and every history stays empty; with no endpoint configured no request is
\* issued, and an accepted send ends as failed with the error marker and the
\* endpoint error as its assistant message, flagged as an error.
C17_ConfigErrorsFailFast ==
    /\ ~settings.model =>
           /\ net.sends = 0
           /\ net.requests = 0
           /\ rounds = <<>>
           /\ sendResult \in {"none", "no-model"}
           /\ \A s \in DOMAIN sessions : sessions[s].history = <<>>
    /\ ~settings.apiEndpoint =>
           /\ net.requests = 0
           /\ hsm.pc # "awaiting"
           /\ (net.sends > 0 /\ hsm.pc = "idle") =>
                  /\ hsm.outcome = "failed"
                  /\ OwnMessage(sessions, hsm).isError
                  /\ OwnMessage(sessions, hsm).content =
                         ErrorMarker \o EndpointErrorText

\* C17's case: a model and no endpoint; the send was accepted and has ended
\* as failed without a request.
C17_Witness ==
    /\ settings.model
    /\ ~settings.apiEndpoint
    /\ net.sends = 1
    /\ net.requests = 0
    /\ hsm.pc = "idle"
    /\ hsm.outcome = "failed"
    /\ OwnMessage(sessions, hsm).isError

\* The conditions under which round k of rs is continued.
Continued(rs, k) ==
    /\ ~rs[k].streamActuallyFinished
    /\ settings.autoContinueStream
    /\ k - 1 < 3

\* C19: a round is followed by a continuation, or waits for one, only if its
\* stream ended with no finish signal seen, automatic continuation enabled
\* and its counter below 3, and the continuation is the next round, one
\* request at most; a last round whose stream ended otherwise has resolved,
\* and then the send has completed with as many requests as rounds.
C19_ContinuationDecision ==
    /\ net.requests <= Len(rounds)
    /\ \A k \in DOMAIN rounds :
           /\ (k < Len(rounds) \/ rounds[k].pc \in {"delay", "awaiting", "orphaned"})
                  => Continued(rounds, k)
           /\ rounds[k].pc \in {"awaiting", "orphaned"} => k < Len(rounds)
           /\ (k = Len(rounds) /\ rounds[k].pc = "resolved") =>
                  /\ ~Continued(rounds, k)
                  /\ hsm.pc = "idle"
                  /\ hsm.outcome = "completed"
                  /\ net.requests = k

\* C19's case: the first stream ended with no finish signal, and after the
\* delay exactly one continuation request, the second of the send, is open.
C19_Witness ==
    /\ Len(rounds) = 2
    /\ rounds[1].pc = "awaiting"
    /\ rounds[1].fullResponse # <<>>
    /\ rounds[2].pc \in {"streaming", "fetching", "reading"}
    /\ net.requests = 2
    /\ ~abortController.aborted

\* C20: while a send is in flight its assistant message's content is the
\* text of all the deltas received so far, over all its rounds, in order.
C20_ContentIsAllDeltas ==
    hsm.pc = "awaiting" => OwnMessage(sessions, hsm).content = Accumulated(rounds)

\* The first "<think>" among the pieces, 0 if there is none.
FirstOpen(tokens) ==
    LET opens == {i \in DOMAIN tokens : tokens[i] = T_ThinkOpen}
    IN  IF opens = {} THEN 0 ELSE Min(opens)

\* The "</think>" pieces after piece i.
ClosesAfter(tokens, i) ==
    {j \in DOMAIN tokens : j > i /\ tokens[j] = T_ThinkClose}

\* What the parts of a raw text are to be: with a complete region, the inner
\* text trimmed and the text without the region, trimmed; with an opening
\* tag alone, the text after the tag, trimmed or as it is, and no content;
\* else no thinking and the text as it is.
ThinkParts(tokens, trimmed) ==
    LET o == FirstOpen(tokens)
        closes == ClosesAfter(tokens, o)
        after == Flat(SubSeq(tokens, o + 1, Len(tokens)))
    IN  IF o # 0 /\ closes # {}
        THEN [thinking |->
                  JStr(trim(Flat(SubSeq(tokens, o + 1, Min(closes) - 1)))),
              content |->
                  trim(Flat(SubSeq(tokens, 1, o - 1))
                       \o Flat(SubSeq(tokens, Min(closes) + 1, Len(tokens))))]
        ELSE IF o # 0
        THEN [thinking |-> JStr(IF trimmed THEN trim(after) ELSE after),
              content |-> <<>>]
        ELSE [thinking |-> JNull, content |-> Flat(tokens)]

\* C16: parseThinkContent gives, for a text with a complete region, the inner
\* text trimmed and the text without the region, trimmed; for a text with an
\* opening tag and no closing tag after it, the text after the tag and the
\* empty content; for any other text, null and the text unchanged.
C16_ThinkPartsAsStated == think.parsed => think.parts = ThinkParts(think.tokens, FALSE)

\* C16, amended: the same, with the text after an unterminated opening tag
\* trimmed.
C16_ThinkPartsTrimmed == think.parsed => think.parts = ThinkParts(think.tokens, TRUE)

\* C16's case: an opening tag with no closing tag, followed by a blank, a
\* letter and a blank: the thinking is the letter and the content is empty.
C16_Witness ==
    /\ think.parsed
    /\ think.tokens = <<T_ThinkOpen, <<" ">>, <<"a">>, <<" ">>>>
    /\ think.parts = [thinking |-> JStr(<<"a">>), content |-> <<>>]

\* C18: outside private mode at least one session exists and
\* currentSessionId names one of the sessions.
C18_AlwaysACurrentSession ==
    ~sm.isPrivateMode =>
        (sm.sessions # {} /\ sm.currentSessionId \in sm.sessions)

\* The transport of round k ends in this step: the invoke resolves or the
\* read loop is done.
EndsStream(k) ==
    /\ k \in DOMAIN rounds
    /\ rounds[k].pc \in {"streaming", "reading"}
    /\ rounds'[k].pc \in {"delay", "resolved"}

\* C28: when the transport of a round ends, the text left in the frame buffer
\* adds nothing to the round's text and sets no flag: the round is continued
\* exactly when its flag, as the complete blocks left it, is unset, automatic
\* continuation is enabled and its counter is below 3, and the text the send
\* ends with is the text of the rounds.
C28_OpenBlockDroppedAtEnd ==
    [][\A k \in DOMAIN rounds :
           EndsStream(k) =>
               /\ rounds'[k].fullResponse = rounds[k].fullResponse
               /\ rounds'[k].streamActuallyFinished =
                      rounds[k].streamActuallyFinished
               /\ (rounds'[k].pc = "delay") = Continued(rounds, k)
               /\ hsm'.pc = "idle" =>
                      /\ hsm'.outcome = "completed"
                      /\ hsm'.rawResponse = Accumulated(rounds')]_vars

\* C28's case: the first stream gave the text "A" and then an open block
\* that holds [DONE], and ended: the block is still in the buffer, the flag
\* is unset and the round waits for its continuation.
C28_Witness ==
    /\ Len(rounds) = 1
    /\ rounds[1].pc = "delay"
    /\ rounds[1].sseBuffer = ChunkPart
    /\ rounds[1].fullResponse = <<"A">>
    /\ ~rounds[1].streamActuallyFinished

\* C22: while a request is in flight for a session, that session's history
\* is changed only by the steps of the send itself (the placeholder push, a
\* chunk write, the finalization); confirming an edit and regenerate leave it
\* as it is.
C22_EditsRejectedInFlight ==
    [][generatingSessionId # NoSession
       /\ sessions'[generatingSessionId].history
              # sessions[generatingSessionId].history
       => hsm'.pc # hsm.pc \/ net'.chunks # net.chunks]_vars

\* C21: every continuation request, the second and the third included,
\* carries as its last message the assistant message holding all the text
\* the earlier rounds of the send have accumulated.
C21_ContinuationCarriesAllText ==
    \A k \in 2..Len(rounds) :
        LET messages == Messages(rounds[k].history)
        IN  messages[Len(messages)] =
                [role |-> "assistant",
                 content |-> trim(replaceThink(
                                 Accumulated(SubSeq(rounds, 1, k - 1))))]

\* The messages of the session of the send that request k may take: all of
\* them, but for the placeholder on the first request.
Eligible(k) ==
    SelectSeq(sessions[hsm.requestSessionId].history,
              LAMBDA msg : k > 1 \/ msg.id # hsm.assistantMsgId)

C25_GeneratingSessionKept ==
    sm.generatingSessionId # NoSession => sm.generatingSessionId \in sm.sessions

\* C30: while private mode is on no step writes the stored sessions or the
\* stored current session id, and the load that follows leaving private mode
\* puts in memory exactly the sessions the store holds.
C30_PrivateModeKeepsStore ==
    [][/\ sm.isPrivateMode => sm'.stored = sm.stored
       /\ \A i \in DOMAIN sm.calls :
              sm.calls[i].fn = "loadSessions" /\ sm.calls[i].pc = "sessions"
              /\ sm' = Resumed(sm, i)
              => sm'.sessions = sm.stored.sessions]_vars

\* Every stream has ended and every cleanup call has returned.
ListenersQuiet ==
    \A n \in DOMAIN lis.streams :
        /\ lis.streams[n].isFinalized
        /\ lis.streams[n].cleanup.pc = "done"

\* C23: the unlisten function of the chunk listener and that of the error
\* listener of a stream are never called twice, whatever terminal events
\* occur, and once every stream has ended and every cleanup has returned
\* each has been called once.
C23_UnsubscribedExactlyOnce ==
    \A n \in DOMAIN lis.streams :
        /\ Len(lis.streams[n].chunkBy) <= 1
        /\ Len(lis.streams[n].errorBy) <= 1
        /\ ListenersQuiet => /\ Len(lis.streams[n].chunkBy) = 1
                             /\ Len(lis.streams[n].errorBy) = 1

\* C24: once a stop has rejected the promise of a stream, the cleanup of the
\* stream has returned: both listeners are unsubscribed and the abort
\* listener is removed.
C24_TeardownBeforeStopped ==
    \A n \in DOMAIN lis.streams :
        lis.streams[n].settled = "abort"
        => /\ lis.streams[n].cleanup.pc = "done"
           /\ lis.streams[n].chunkBy # <<>>
           /\ lis.streams[n].errorBy # <<>>
           /\ ~lis.streams[n].abortListener

\* C26: the listeners of a stream are unsubscribed by the cleanup of that
\* stream alone, and a stream that has not ended keeps its listeners
\* registered and in the globals, even when it starts while the cleanup of
\* an earlier stream is pending.
C26_CleanupOfOwnListeners ==
    \A n \in DOMAIN lis.streams :
        /\ \A i \in DOMAIN lis.streams[n].chunkBy : lis.streams[n].chunkBy[i] = n
        /\ \A i \in DOMAIN lis.streams[n].errorBy : lis.streams[n].errorBy[i] = n
        /\ ~lis.streams[n].isFinalized
           => /\ lis.streams[n].chunkBy = <<>>
              /\ lis.streams[n].errorBy = <<>>
              /\ lis.streamChunkListener = n
              /\ lis.streamErrorListener = n

\* C27: a send that takes the same chunks and ends by the same event, the
\* end of the stream or a stop, comes on the fetch path to what it has come
\* to on the event path, and the other way round: the same outcome, the same
\* content of the message, the same number of requests.
C27_PathsAgree ==
    firstRun.done /\ RunOver
    /\ net.chunks = firstRun.chunks
    /\ abortController.aborted = firstRun.aborted
    => RunResult = firstRun.result
====
